---- MODULE Spec2Model ----
(***************************************************************************)
(* A model of the discrete-event scheduler of the traffic simulation       *)
(* (sim/src/scheduler.rs): the priority queue of (time, command key)       *)
(* items, the side table of queued commands, and the operations push,      *)
(* update, cancel, peek_next_time, get_next, before_savestate and          *)
(* after_savestate.                                                        *)
(*                                                                         *)
(* The scheduler is a record; every operation is an operator from a        *)
(* scheduler record to its successor, so that the same code can be run on  *)
(* two schedulers side by side.  The BinaryHeap is a sequence of items in  *)
(* insertion order; a pop removes the greatest item under Item::cmp (the    *)
(* earliest inserted one among items that compare equal).                  *)
(***************************************************************************)
EXTENDS Integers, Sequences, FiniteSets, Bags, TLC

\* ------------------------------------------------------------------ bounds

\* Times handed to push and update range over 0..MaxTime.
MaxTime == 1
\* No push or update is attempted once the heap holds MaxItems items.
MaxItems == 2
\* No more than MaxPushes calls of push in one run (caps the diagnostic counters).
MaxPushes == 2

Times == 0..MaxTime

\* ------------------------------------------------------- program constants

\* Time::START_OF_DAY
START_OF_DAY == 0
\* Path::dummy(), the placeholder path; real paths are 1, 2, ...
DummyPath == 0

\* ---------------------------------------------------------------- helpers

Max(a, b) == IF a >= b THEN a ELSE b

RemoveAt(seq, i) == [j \in 1..(Len(seq) - 1) |-> IF j < i THEN seq[j] ELSE seq[j + 1]]

\* A map with key k bound to v (HashMap::insert).
MapPut(m, k, v) == [x \in (DOMAIN m) \cup {k} |-> IF x = k THEN v ELSE m[x]]

\* A map without key k (HashMap::remove).
MapRemove(m, k) == [x \in (DOMAIN m) \ {k} |-> m[x]]

EmptyMap == [x \in {} |-> 0]

\* --------------------------------------------------------------- commands

\* enum Command
SpawnCar(c, retry, path) == [tag |-> "SpawnCar", id |-> c, retry |-> retry, path |-> path]
SpawnPed(p, path) == [tag |-> "SpawnPed", id |-> p, path |-> path]
StartTrip(t, spec) == [tag |-> "StartTrip", id |-> t, spec |-> spec]
UpdateCar(c) == [tag |-> "UpdateCar", id |-> c]
UpdateLaggyHead(c) == [tag |-> "UpdateLaggyHead", id |-> c]
UpdatePed(p) == [tag |-> "UpdatePed", id |-> p]
UpdateIntersection(i) == [tag |-> "UpdateIntersection", id |-> i]
Callback(d) == [tag |-> "Callback", id |-> d]
Pandemic(p) == [tag |-> "Pandemic", id |-> p]
FinishRemoteTrip(t) == [tag |-> "FinishRemoteTrip", id |-> t]
StartBus(r, t) == [tag |-> "StartBus", id |-> r, time |-> t]

\* Option<Command>::None
NoCommand == [tag |-> "None"]

\* A plausible slip: SpawnCar gets a key of its own instead of the key of its car.
ToTypeByVariant(cmd) ==
    CASE cmd.tag = "SpawnCar" -> [kind |-> "SpawnCar", id |-> cmd.id]
      [] cmd.tag = "SpawnPed" -> [kind |-> "Ped", id |-> cmd.id]
      [] cmd.tag = "StartTrip" -> [kind |-> "StartTrip", id |-> cmd.id]
      [] cmd.tag = "UpdateCar" -> [kind |-> "Car", id |-> cmd.id]
      [] cmd.tag = "UpdateLaggyHead" -> [kind |-> "CarLaggyHead", id |-> cmd.id]
      [] cmd.tag = "UpdatePed" -> [kind |-> "Ped", id |-> cmd.id]
      [] cmd.tag = "UpdateIntersection" -> [kind |-> "Intersection", id |-> cmd.id]
      [] cmd.tag = "Callback" -> [kind |-> "Callback"]
      [] cmd.tag = "Pandemic" -> [kind |-> "Pandemic", id |-> cmd.id]
      [] cmd.tag = "FinishRemoteTrip" -> [kind |-> "FinishRemoteTrip", id |-> cmd.id]
      [] cmd.tag = "StartBus" -> [kind |-> "StartBus", id |-> cmd.id, time |-> cmd.time]

\* Command::to_type: the command key
ToType(cmd) ==
    CASE cmd.tag = "SpawnCar" -> [kind |-> "Car", id |-> cmd.id]
      [] cmd.tag = "SpawnPed" -> [kind |-> "Ped", id |-> cmd.id]
      [] cmd.tag = "StartTrip" -> [kind |-> "StartTrip", id |-> cmd.id]
      [] cmd.tag = "UpdateCar" -> [kind |-> "Car", id |-> cmd.id]
      [] cmd.tag = "UpdateLaggyHead" -> [kind |-> "CarLaggyHead", id |-> cmd.id]
      [] cmd.tag = "UpdatePed" -> [kind |-> "Ped", id |-> cmd.id]
      [] cmd.tag = "UpdateIntersection" -> [kind |-> "Intersection", id |-> cmd.id]
      [] cmd.tag = "Callback" -> [kind |-> "Callback"]
      [] cmd.tag = "Pandemic" -> [kind |-> "Pandemic", id |-> cmd.id]
      [] cmd.tag = "FinishRemoteTrip" -> [kind |-> "FinishRemoteTrip", id |-> cmd.id]
      [] cmd.tag = "StartBus" -> [kind |-> "StartBus", id |-> cmd.id, time |-> cmd.time]

\* Command::to_simple_type
ToSimpleType(cmd) ==
    CASE cmd.tag = "SpawnCar" -> "Car"
      [] cmd.tag = "SpawnPed" -> "Ped"
      [] cmd.tag = "StartTrip" -> "StartTrip"
      [] cmd.tag = "UpdateCar" -> "Car"
      [] cmd.tag = "UpdateLaggyHead" -> "CarLaggyHead"
      [] cmd.tag = "UpdatePed" -> "Ped"
      [] cmd.tag = "UpdateIntersection" -> "Intersection"
      [] cmd.tag = "Callback" -> "Callback"
      [] cmd.tag = "Pandemic" -> "Pandemic"
      [] cmd.tag = "FinishRemoteTrip" -> "FinishRemoteTrip"
      [] cmd.tag = "StartBus" -> "StartBus"

\* The position of a variant in enum CommandType; #[derive(Ord)] compares it first.
KindRank(kind) ==
    CASE kind = "StartTrip" -> 0
      [] kind = "Car" -> 1
      [] kind = "CarLaggyHead" -> 2
      [] kind = "Ped" -> 3
      [] kind = "Intersection" -> 4
      [] kind = "Callback" -> 5
      [] kind = "Pandemic" -> 6
      [] kind = "FinishRemoteTrip" -> 7
      [] kind = "StartBus" -> 8

\* Ordering of two integers: -1 (Less), 0 (Equal), 1 (Greater).
IntCmp(a, b) == IF a < b THEN -1 ELSE IF a > b THEN 1 ELSE 0

\* #[derive(PartialOrd, Ord)] on CommandType: the variant first, then its fields.
CommandTypeCmp(a, b) ==
    IF KindRank(a.kind) # KindRank(b.kind)
    THEN IntCmp(KindRank(a.kind), KindRank(b.kind))
    ELSE IF a.kind = "Callback" THEN 0
    ELSE IF a.id # b.id THEN IntCmp(a.id, b.id)
    ELSE IF a.kind = "StartBus" THEN IntCmp(a.time, b.time)
    ELSE 0

\* struct Item
Item(time, cmd_type) == [time |-> time, cmd_type |-> cmd_type]

NoItem == [time |-> -1]

\* A plausible slip of Item::cmp: the tie-breaker on the command key is left out.
ItemCmpTimeOnly(self, other) == IntCmp(other.time, self.time)

\* Item::cmp: the comparison on time is reversed (BinaryHeap is a max-heap); ties
\* are broken by the command key.
ItemCmp(self, other) ==
    LET ord == IntCmp(other.time, self.time)
    IN  IF ord # 0 THEN ord ELSE CommandTypeCmp(self.cmd_type, other.cmd_type)

\* BinaryHeap::pop / peek: the index of the greatest item under Item::cmp; among
\* items that compare Equal, the one inserted first.
HeapTop(items) ==
    LET greatest == {i \in 1..Len(items) :
                        \A j \in 1..Len(items) : ItemCmp(items[i], items[j]) >= 0}
    IN  CHOOSE i \in greatest : \A j \in greatest : i <= j

\* -------------------------------------------------------------- scheduler

\* Scheduler::new
NewScheduler ==
    [items |-> <<>>,
     queued_commands |-> EmptyMap,
     latest_time |-> START_OF_DAY,
     last_time |-> START_OF_DAY,
     delta_times |-> EmptyBag,
     cmd_type_counts |-> EmptyBag]

\* A plausible slip of the guard: no check of the time at all.
TooEarlyNever(s, time) == FALSE

\* A plausible slip of the guard: off by one.
TooEarlyOffByOne(s, time) == time + 1 < s.latest_time

\* The guard of push and update: scheduling before latest_time is fatal.
TooEarly(s, time) == time < s.latest_time

\* A plausible slip of push: an occupied key is overwritten instead of refused.
PushOverwriting(s, time, cmd) ==
    IF TooEarly(s, time)
    THEN [s |-> s, fatal |-> TRUE]
    ELSE [s |-> [s EXCEPT
                   !.last_time = Max(s.last_time, time),
                   !.delta_times = @ (+) SetToBag({time - s.latest_time}),
                   !.cmd_type_counts = @ (+) SetToBag({ToSimpleType(cmd)}),
                   !.queued_commands = MapPut(@, ToType(cmd), [cmd |-> cmd, time |-> time]),
                   !.items = Append(@, Item(time, ToType(cmd)))],
          fatal |-> FALSE]

\* Scheduler::push.  The result holds the scheduler afterwards and whether the
\* call panicked (last_time and the counters are written before the key check).
Push(s, time, cmd) ==
    IF TooEarly(s, time)
    THEN [s |-> s, fatal |-> TRUE]
    ELSE LET s1 == [s EXCEPT !.last_time = Max(s.last_time, time),
                             !.delta_times = @ (+) SetToBag({time - s.latest_time}),
                             !.cmd_type_counts = @ (+) SetToBag({ToSimpleType(cmd)})]
             cmd_type == ToType(cmd)
         IN  IF cmd_type \notin DOMAIN s.queued_commands
             THEN [s |-> [s1 EXCEPT
                            !.queued_commands = MapPut(@, cmd_type, [cmd |-> cmd, time |-> time]),
                            !.items = Append(@, Item(time, cmd_type))],
                   fatal |-> FALSE]
             ELSE [s |-> s1, fatal |-> TRUE]

\* A plausible slip of update: the new time is recorded in the table, but no item
\* of that time is put on the heap.
UpdateWithoutItem(s, new_time, cmd) ==
    IF TooEarly(s, new_time)
    THEN [s |-> s, fatal |-> TRUE]
    ELSE LET s1 == [s EXCEPT !.last_time = Max(s.last_time, new_time)]
             cmd_type == ToType(cmd)
         IN  IF cmd_type \in DOMAIN s.queued_commands
                /\ s.queued_commands[cmd_type].cmd # cmd
             THEN [s |-> s1, fatal |-> TRUE]
             ELSE [s |-> [s1 EXCEPT
                            !.queued_commands = MapPut(@, cmd_type, [cmd |-> cmd, time |-> new_time])],
                   fatal |-> FALSE]

\* A plausible slip of update: the time of a command that is queued already stays
\* as it is in the table.
UpdateKeepingTime(s, new_time, cmd) ==
    IF TooEarly(s, new_time)
    THEN [s |-> s, fatal |-> TRUE]
    ELSE LET s1 == [s EXCEPT !.last_time = Max(s.last_time, new_time)]
             cmd_type == ToType(cmd)
         IN  IF cmd_type \in DOMAIN s.queued_commands
                /\ s.queued_commands[cmd_type].cmd # cmd
             THEN [s |-> s1, fatal |-> TRUE]
             ELSE [s |-> [s1 EXCEPT
                            !.queued_commands =
                                IF cmd_type \in DOMAIN @ THEN @
                                ELSE MapPut(@, cmd_type, [cmd |-> cmd, time |-> new_time]),
                            !.items = Append(@, Item(new_time, cmd_type))],
                   fatal |-> FALSE]

\* A plausible slip of update: the assert_eq on the queued command is missing.
UpdateUnchecked(s, new_time, cmd) ==
    IF TooEarly(s, new_time)
    THEN [s |-> s, fatal |-> TRUE]
    ELSE [s |-> [s EXCEPT
                   !.last_time = Max(s.last_time, new_time),
                   !.queued_commands = MapPut(@, ToType(cmd), [cmd |-> cmd, time |-> new_time]),
                   !.items = Append(@, Item(new_time, ToType(cmd)))],
          fatal |-> FALSE]

\* Scheduler::update
Update(s, new_time, cmd) ==
    IF TooEarly(s, new_time)
    THEN [s |-> s, fatal |-> TRUE]
    ELSE LET s1 == [s EXCEPT !.last_time = Max(s.last_time, new_time)]
             cmd_type == ToType(cmd)
         IN  IF cmd_type \in DOMAIN s.queued_commands
                /\ s.queued_commands[cmd_type].cmd # cmd
             THEN [s |-> s1, fatal |-> TRUE]
             ELSE [s |-> [s1 EXCEPT
                            !.queued_commands = MapPut(@, cmd_type, [cmd |-> cmd, time |-> new_time]),
                            !.items = Append(@, Item(new_time, cmd_type))],
                   fatal |-> FALSE]

\* A plausible slip of cancel: the entry is removed only when the queued command
\* equals the one given, instead of by key.
CancelIfEqual(s, cmd) ==
    IF ToType(cmd) \in DOMAIN s.queued_commands /\ s.queued_commands[ToType(cmd)].cmd = cmd
    THEN [s EXCEPT !.queued_commands = MapRemove(@, ToType(cmd))]
    ELSE s

\* Scheduler::cancel
Cancel(s, cmd) == [s EXCEPT !.queued_commands = MapRemove(@, ToType(cmd))]

\* A plausible slip: the items whose command is no longer queued at their time
\* are passed over.
PeekNextLiveTime(s) ==
    LET Live(item) == /\ item.cmd_type \in DOMAIN s.queued_commands
                      /\ s.queued_commands[item.cmd_type].time = item.time
        live == SelectSeq(s.items, Live)
    IN  IF live = <<>> THEN NoItem.time ELSE live[HeapTop(live)].time

\* Scheduler::peek_next_time (-1 stands for None)
PeekNextTime(s) == IF s.items = <<>> THEN NoItem.time ELSE s.items[HeapTop(s.items)].time

\* Scheduler::get_last_time
GetLastTime(s) == s.last_time

\* A plausible slip of the test: >= for >.
RescheduledOrNow(scheduled_time, item_time) == scheduled_time >= item_time

\* A plausible slip of the test: a stale item is never recognised.
RescheduledNever(scheduled_time, item_time) == FALSE

\* The test of get_next on an occupied entry: the command was re-scheduled for later.
Rescheduled(scheduled_time, item_time) == scheduled_time > item_time

\* Scheduler::get_next.  On an empty heap items.pop().unwrap() panics.
GetNext(s) ==
    IF s.items = <<>>
    THEN [s |-> s, fatal |-> TRUE, item |-> NoItem, out |-> NoCommand]
    ELSE LET i == HeapTop(s.items)
             item == s.items[i]
             s1 == [s EXCEPT !.items = RemoveAt(@, i), !.latest_time = item.time]
         IN  IF item.cmd_type \notin DOMAIN s.queued_commands
             THEN [s |-> s1, fatal |-> FALSE, item |-> item, out |-> NoCommand]
             ELSE IF Rescheduled(s.queued_commands[item.cmd_type].time, item.time)
             THEN [s |-> s1, fatal |-> FALSE, item |-> item, out |-> NoCommand]
             ELSE [s |-> [s1 EXCEPT !.queued_commands = MapRemove(@, item.cmd_type)],
                   fatal |-> FALSE, item |-> item,
                   out |-> s.queued_commands[item.cmd_type].cmd]

\* The commands that carry a path: SpawnCar (in its router) and SpawnPed.
CarriesPath(cmd) == cmd.tag \in {"SpawnCar", "SpawnPed"}

\* Router::replace_path_for_serialization on the router of a SpawnCar, and
\* std::mem::replace on the path of a SpawnPed: the command carries the path given,
\* and the path it carried is handed back.
ReplacePath(cmd, path) == [cmd |-> [cmd EXCEPT !.path = path], old |-> cmd.path]

\* The orders in which the keys of a map can be iterated.
IterOrders(m) ==
    {f \in [1..Cardinality(DOMAIN m) -> DOMAIN m] :
        \A i, j \in 1..Cardinality(DOMAIN m) : f[i] = f[j] => i = j}

\* The loop of before_savestate from the i-th entry on, over queued_commands.values_mut()
\* in the order given: a path carried is pushed on restore and replaced by Path::dummy().
RECURSIVE BeforeLoop(_, _, _, _)
BeforeLoop(q, paths, order, i) ==
    IF i > Len(order) THEN [q |-> q, restore |-> paths]
    ELSE LET k == order[i]
         IN  IF CarriesPath(q[k].cmd)
             THEN LET r == ReplacePath(q[k].cmd, DummyPath)
                  IN  BeforeLoop([q EXCEPT ![k].cmd = r.cmd],
                                 Append(paths, r.old), order, i + 1)
             ELSE BeforeLoop(q, paths, order, i + 1)

\* Scheduler::before_savestate, the map being iterated in the order given.
BeforeSavestate(s, order) ==
    LET r == BeforeLoop(s.queued_commands, <<>>, order, 1)
    IN  [s |-> [s EXCEPT !.queued_commands = r.q], restore |-> r.restore]

\* A plausible slip of after_savestate: the list is not reversed before it is popped.
RestoreNotReversed(paths) == paths

\* restore.reverse()
RestoreReversed(paths) == [i \in 1..Len(paths) |-> paths[Len(paths) + 1 - i]]

\* The loop of after_savestate from the i-th entry on: a command that carries a path
\* gets restore.pop().unwrap(), the last element of the list (a panic on an empty
\* list).
RECURSIVE AfterLoop(_, _, _, _)
AfterLoop(q, paths, order, i) ==
    IF i > Len(order) THEN [q |-> q, restore |-> paths, fatal |-> FALSE]
    ELSE LET k == order[i]
         IN  IF CarriesPath(q[k].cmd)
             THEN IF paths = <<>>
                  THEN [q |-> q, restore |-> paths, fatal |-> TRUE]
                  ELSE LET r == ReplacePath(q[k].cmd, paths[Len(paths)])
                       IN  AfterLoop([q EXCEPT ![k].cmd = r.cmd],
                                     SubSeq(paths, 1, Len(paths) - 1), order, i + 1)
             ELSE AfterLoop(q, paths, order, i + 1)

\* Scheduler::after_savestate, the map being iterated in the order given; the
\* closing assert panics when paths are left over.
AfterSavestate(s, paths, order) ==
    LET r == AfterLoop(s.queued_commands, RestoreReversed(paths), order, 1)
    IN  [s |-> [s EXCEPT !.queued_commands = r.q],
         restore |-> r.restore,
         fatal |-> r.fatal \/ r.restore # <<>>]

\* What serde writes of a Scheduler: delta_times and cmd_type_counts are marked
\* skip_serializing.
Serialize(s) ==
    [items |-> s.items,
     queued_commands |-> s.queued_commands,
     latest_time |-> s.latest_time,
     last_time |-> s.last_time]

\* The bijections of 1..n: the orders in which n heap items can be laid out.
Orders(n) == {f \in [1..n -> 1..n] : \A i, j \in 1..n : f[i] = f[j] => i = j}

\* What serde reads back: the heap is rebuilt from its items, in a layout (order)
\* that need not be the one of the saved heap; the two fields marked
\* skip_deserializing get their defaults.
Deserialize(d, order) ==
    [items |-> [i \in 1..Len(d.items) |-> d.items[order[i]]],
     queued_commands |-> d.queued_commands,
     latest_time |-> d.latest_time,
     last_time |-> d.last_time,
     delta_times |-> EmptyBag,
     cmd_type_counts |-> EmptyBag]

\* ------------------------------------------------------- the driving map

\* The lanes for moving vehicles and the turns between them: every one has a queue
\* (DrivingSimState::new).  Turn T1 leads from lane L1 to lane L2, turn T2 from
\* lane L3 to lane L2; no turn leads to or from lane L4, which is twice as long as
\* the others.
Lanes == {"L1", "L2", "L3", "L4"}

Turns == {"T1", "T2"}

Traversables == Lanes \cup Turns

\* queues: BTreeMap<Traversable, Queue> is iterated in the order of its keys, the
\* lanes before the turns.
QueueOrder == <<"L1", "L2", "L3", "L4", "T1", "T2">>

\* Queue::geom_len, the length of a traversable.
GeomLen(on) == IF on = "L4" THEN 8 ELSE IF on \in Lanes THEN 4 ELSE 1

\* The parking spots, and the two bounds of a closed interval.
Spots == {"S1"}

Interval(start, end) == [start |-> start, end |-> end]

\* ------------------------------------------------------------- the constants

FOLLOWING_DISTANCE == 1

TIME_TO_UNPARK == 10

TIME_TO_PARK == 15

TIME_TO_WAIT_AT_STOP == 10

\* ------------------------------------------------------------------- the car

\* enum CarState
Queued == [tag |-> "Queued"]

Crossing(time_int, dist_int) == [tag |-> "Crossing", time_int |-> time_int, dist_int |-> dist_int]

Unparking(front, time_int) == [tag |-> "Unparking", front |-> front, time_int |-> time_int]

Parking(front, spot, time_int) ==
    [tag |-> "Parking", front |-> front, spot |-> spot, time_int |-> time_int]

Idling(front, time_int) == [tag |-> "Idling", front |-> front, time_int |-> time_int]

\* Car::crossing_state: the car covers [start_dist, end of the segment] at the
\* segment's speed, one unit of distance in one unit of time.
CrossingState(on, start_dist, time) ==
    Crossing(Interval(time, time + (GeomLen(on) - start_dist)),
             Interval(start_dist, GeomLen(on)))

\* dist_int.lerp(time_int.percent(time)): where a Crossing car is at a time, if no
\* car holds it back.
Lerp(state, time) ==
    LET ti == state.time_int
        di == state.dist_int
    IN  IF time >= ti.end THEN di.end
        ELSE IF time <= ti.start THEN di.start
        ELSE di.start + ((di.end - di.start) * (time - ti.start)) \div (ti.end - ti.start)

\* The front of a car on segment on at a time, from its own state alone.
FreePosition(car, on, time) ==
    CASE car.state.tag = "Queued" -> GeomLen(on)
      [] car.state.tag = "Crossing" -> Lerp(car.state, time)
      [] OTHER -> car.state.front

\* ---------------------------------------------------------------- the router

\* enum ActionAtEnd, and the answer none.
VanishAtBorder == [tag |-> "VanishAtBorder"]

StartParking(spot) == [tag |-> "StartParking", spot |-> spot]

GotoLaneEnd == [tag |-> "GotoLaneEnd"]

StopBiking == [tag |-> "StopBiking"]

BusAtStop == [tag |-> "BusAtStop"]

NoAction == [tag |-> "None"]

\* A router: the steps left of the path, the current one first, and what the car
\* does at distance end_dist of the last one.
Router(path, goal, end_dist) == [path |-> path, goal |-> goal, end_dist |-> end_dist]

\* Router::head
RouterHead(r) == r.path[1]

\* Router::last_step
LastStep(r) == Len(r.path) = 1

\* Router::next
RouterNext(r) == r.path[2]

\* Router::advance: the current step is finished.
Advance(r) == [r EXCEPT !.path = Tail(r.path)]

\* Router::maybe_handle_end: the end action once the car has reached end_dist.  No
\* StartParking is answered for a spot that is not free; the car goes on to the end
\* of the lane instead, if it is not there.
MaybeHandleEnd(r, dist, reserved) ==
    IF dist < r.end_dist THEN NoAction
    ELSE CASE r.goal.kind = "Border" -> VanishAtBorder
           [] r.goal.kind = "Bike" -> StopBiking
           [] r.goal.kind = "Bus" -> BusAtStop
           [] r.goal.kind = "Park" ->
                IF r.goal.spot \notin reserved THEN StartParking(r.goal.spot)
                ELSE IF dist < GeomLen(RouterHead(r)) THEN GotoLaneEnd
                ELSE NoAction

\* TransitSimState::bus_departed_from_stop: the router of the bus for the rest of
\* its route, which goes on from lane L1 over turn T1 and ends at the border of
\* lane L2.
BusDepartedFromStop(r) ==
    IF RouterHead(r) = "L1"
    THEN Router(<<"L1", "T1", "L2">>, [kind |-> "Border"], GeomLen("L2"))
    ELSE Router(<<RouterHead(r)>>, [kind |-> "Border"], GeomLen(RouterHead(r)))

\* Car::trim_last_steps: the steps the back of the car has cleared are dropped; at
\* the start of a segment the back is on the steps whose lengths add up to the
\* length of the car.
RECURSIVE TrimLastSteps(_, _)
TrimLastSteps(steps, length) ==
    IF steps = <<>> \/ length <= 0 THEN <<>>
    ELSE <<steps[1]>> \o TrimLastSteps(Tail(steps), length - GeomLen(steps[1]))

\* struct Car
Car(id, length, router, state, last_steps) ==
    [id |-> id, length |-> length, router |-> router, state |-> state,
     last_steps |-> last_steps]

\* ----------------------------------------------------------------- the queue

\* Queue::get_car_positions from the i-th car of the queue on, the car before it
\* being bounded by bound: the front of each car is where its own state puts it,
\* or right behind its leader if that is less.
RECURSIVE PositionsFrom(_, _, _, _, _, _)
PositionsFrom(ids, on, time, cars, i, bound) ==
    IF i > Len(ids) THEN <<>>
    ELSE LET car == cars[ids[i]]
             free == FreePosition(car, on, time)
             front == IF free <= bound THEN free ELSE bound
         IN  <<[id |-> ids[i], dist |-> front]>>
             \o PositionsFrom(ids, on, time, cars, i + 1,
                              front - car.length - FOLLOWING_DISTANCE)

\* Queue::get_car_positions: the (car, front) pairs of the queue, head first.
GetCarPositions(ids, on, time, cars) == PositionsFrom(ids, on, time, cars, 1, GeomLen(on))

\* Queue::room_at_end: the queue is empty or the rear of its last car is at least
\* FOLLOWING_DISTANCE from the start.
RoomAtEnd(ids, on, time, cars) ==
    LET dists == GetCarPositions(ids, on, time, cars)
    IN  \/ dists = <<>>
        \/ dists[Len(dists)].dist - cars[dists[Len(dists)].id].length >= FOLLOWING_DISTANCE

\* Queue::get_idx_to_insert_car, zero-based: the set of the index at which a car of
\* the length given fits with its front at start_dist, empty if there is none.
GetIdxToInsertCar(ids, on, start_dist, length, time, cars) ==
    LET dists == GetCarPositions(ids, on, time, cars)
        behind == {i \in 1..Len(dists) : start_dist >= dists[i].dist}
        idx == IF behind = {} THEN Len(dists) + 1
               ELSE CHOOSE i \in behind : \A j \in behind : i <= j
        leader_ok == \/ idx = 1
                     \/ dists[idx - 1].dist - cars[dists[idx - 1].id].length
                          - FOLLOWING_DISTANCE >= start_dist
        follower_ok == \/ idx = Len(dists) + 1
                       \/ start_dist - length - FOLLOWING_DISTANCE >= dists[idx].dist
    IN  IF leader_ok /\ follower_ok THEN {idx - 1} ELSE {}

\* VecDeque::insert(idx, id), idx zero-based.
InsertAt(seq, idx, x) ==
    [j \in 1..(Len(seq) + 1) |->
        IF j <= idx THEN seq[j] ELSE IF j = idx + 1 THEN x ELSE seq[j - 1]]

\* ------------------------------------------------------------ DrivingSimState

\* DrivingSimState::new: no car, and an empty queue for every lane and turn.
NewDrivingSimState ==
    [cars |-> EmptyMap, queues |-> [on \in Traversables |-> <<>>]]

\* The collaborators step_if_needed and start_car_on_lane talk to, as far as the
\* driving simulation shows: the spots ParkingSimState holds reserved, the cars it
\* was given as parked, the turns IntersectionSimState has granted and not seen
\* finished, and how often TripManager and TransitSimState were told of each car.
NewWorld ==
    [reserved |-> {}, parked |-> {}, accepted |-> {},
     reached_border |-> EmptyBag, bus_arrived |-> EmptyBag]

\* What a call works on: the cars and queues, the collaborators, the calls made to
\* the collaborators and the removals and hand-offs of this call in order, and
\* whether the call has panicked.
Context(d, w) ==
    [cars |-> d.cars, queues |-> d.queues, world |-> w, events |-> <<>>, fatal |-> FALSE]

\* A plausible slip: a timed state is over at the end of its interval already.
ElapsedAtEnd(time, time_int) == time >= time_int.end

\* time > time_int.end, the test that ends every timed state.
Elapsed(time, time_int) == time > time_int.end

\* A plausible slip: the length of the car that leaves is not taken off.
FollowerStartAtLeaderFront(leader_dist, leader_length) == leader_dist - FOLLOWING_DISTANCE

\* Where a Queued follower is when the car before it, of the length given and with
\* its front at leader_dist, leaves the queue.
FollowerStart(leader_dist, leader_length) == leader_dist - leader_length - FOLLOWING_DISTANCE

\* Phase 1 of step_if_needed for car id: Crossing becomes Queued and Unparking
\* becomes Crossing once their time is over.  On its last step the router of an
\* Unparking car is asked for its end action at the front of the car first; the
\* answer is dropped, and the router, which has its end_dist from the start here,
\* is as it was.
Promote(c, id, time) ==
    LET car == c.cars[id]
    IN  IF car.state.tag = "Crossing" /\ Elapsed(time, car.state.time_int)
        THEN [c EXCEPT !.cars[id].state = Queued]
        ELSE IF car.state.tag = "Unparking" /\ Elapsed(time, car.state.time_int)
        THEN LET crossing == CrossingState(RouterHead(car.router), car.state.front, time)
             IN  IF LastStep(car.router)
                 THEN [c EXCEPT
                         !.events = Append(@, [ev |-> "maybe_handle_end", car |-> id,
                                               dist |-> car.state.front,
                                               action |-> MaybeHandleEnd(car.router,
                                                                         car.state.front,
                                                                         c.world.reserved)]),
                         !.cars[id].state = crossing]
                 ELSE [c EXCEPT !.cars[id].state = crossing]
        ELSE c

\* Phase 1 of step_if_needed for the cars ids of the table, in the order of their
\* ids (cars is a BTreeMap).
RECURSIVE PromoteLoop(_, _, _)
PromoteLoop(c, ids, time) ==
    IF ids = {} THEN c
    ELSE LET id == CHOOSE x \in ids : \A y \in ids : x <= y
         IN  PromoteLoop(Promote(c, id, time), ids \ {id}, time)

\* Phase 1 of step_if_needed.
PromoteAll(c, time) == PromoteLoop(c, DOMAIN c.cars, time)

\* A plausible slip: the spot is not reserved when the car starts to park.
ReserveSpotForgotten(reserved, spot) == reserved

\* parking.reserve_spot(spot), called as the car enters Parking.
ReserveSpot(reserved, spot) == reserved \cup {spot}

\* A plausible slip: the bus waits at its stop as long as a car takes to park.
StopAtAsLongAsParking(dist, time) == Idling(dist, Interval(time, time + TIME_TO_PARK))

\* The state of a bus that has arrived at its stop with its front at dist.
StopAt(dist, time) == Idling(dist, Interval(time, time + TIME_TO_WAIT_AT_STOP))

\* Phase 2, the body of the loop over the positions of one queue, for the car at
\* zero-based index idx with its front at dist: r.c is the context after it, and
\* r.delete says whether (idx, dist) is pushed on delete_indices.
ResolveEnd(c, on, idx, id, dist, time) ==
    LET car == c.cars[id]
        keep == [c |-> c, delete |-> FALSE]
    IN  IF ~LastStep(car.router) THEN keep
        ELSE IF car.state.tag = "Queued"
        THEN LET action == MaybeHandleEnd(car.router, dist, c.world.reserved)
                 asked == [c EXCEPT !.events = Append(@, [ev |-> "maybe_handle_end",
                                                          car |-> id, dist |-> dist,
                                                          action |-> action])]
             IN  CASE action.tag = "VanishAtBorder" ->
                        [c |-> [asked EXCEPT
                                  !.world.reached_border = @ (+) SetToBag({id}),
                                  !.events = Append(@, [ev |-> "car_or_bike_reached_border",
                                                        car |-> id])],
                         delete |-> TRUE]
                   [] action.tag = "StartParking" ->
                        [c |-> [asked EXCEPT
                                  !.cars[id].state =
                                      Parking(dist, action.spot,
                                              Interval(time, time + TIME_TO_PARK)),
                                  !.world.reserved = ReserveSpot(@, action.spot),
                                  !.events = Append(@, [ev |-> "reserve_spot", car |-> id,
                                                        spot |-> action.spot])],
                         delete |-> FALSE]
                   [] action.tag = "GotoLaneEnd" ->
                        [c |-> [asked EXCEPT !.cars[id].state = CrossingState(on, dist, time)],
                         delete |-> FALSE]
                   [] action.tag = "StopBiking" ->
                        [c |-> [asked EXCEPT
                                  !.events = Append(@, [ev |-> "bike_reached_end", car |-> id])],
                         delete |-> TRUE]
                   [] action.tag = "BusAtStop" ->
                        [c |-> [asked EXCEPT
                                  !.world.bus_arrived = @ (+) SetToBag({id}),
                                  !.events = Append(@, [ev |-> "bus_arrived_at_stop",
                                                        car |-> id]),
                                  !.cars[id].state = StopAt(dist, time)],
                         delete |-> FALSE]
                   [] OTHER -> [c |-> asked, delete |-> FALSE]
        ELSE IF car.state.tag = "Parking"
        THEN IF Elapsed(time, car.state.time_int)
             THEN [c |-> [c EXCEPT
                            !.world.parked = @ \cup {id},
                            !.events = Append(@, [ev |-> "car_reached_parking_spot",
                                                  car |-> id, spot |-> car.state.spot])],
                   delete |-> TRUE]
             ELSE keep
        ELSE IF car.state.tag = "Idling"
        THEN IF Elapsed(time, car.state.time_int)
             THEN LET router == BusDepartedFromStop(car.router)
                  IN  [c |-> [c EXCEPT
                                !.cars[id].router = router,
                                !.cars[id].state =
                                    CrossingState(RouterHead(router), car.state.front, time),
                                !.events = Append(@, [ev |-> "bus_departed_from_stop",
                                                      car |-> id])],
                       delete |-> FALSE]
             ELSE keep
        ELSE keep

\* Phase 2, the loop over the positions dists of queue on, from the i-th on:
\* r.c is the context after it and r.delete_indices the list it has filled.
RECURSIVE ResolveLoop(_, _, _, _, _, _)
ResolveLoop(c, on, dists, i, delete_indices, time) ==
    IF i > Len(dists) THEN [c |-> c, delete_indices |-> delete_indices]
    ELSE LET r == ResolveEnd(c, on, i - 1, dists[i].id, dists[i].dist, time)
         IN  ResolveLoop(r.c, on, dists, i + 1,
                         IF r.delete
                         THEN Append(delete_indices, [idx |-> i - 1, dist |-> dists[i].dist])
                         ELSE delete_indices,
                         time)

\* A plausible slip: the list of removals is walked from the head of the queue.
DeleteOrderNotReversed(delete_indices) == delete_indices

\* delete_indices.reverse()
DeleteOrder(delete_indices) ==
    [i \in 1..Len(delete_indices) |-> delete_indices[Len(delete_indices) + 1 - i]]

\* The follower after its leader has left: a Queued one crosses from where it is.
FixedFollower(follower, on, leader_dist, leader_length, time) ==
    IF follower.state.tag = "Queued"
    THEN [follower EXCEPT
            !.state = CrossingState(on, FollowerStart(leader_dist, leader_length), time)]
    ELSE follower

\* Phase 2, one removal: the car at zero-based index idx leaves queue on and the
\* cars table, and the car then at idx, if there is one, is fixed.  Removing at an
\* index the queue does not have panics.
RemoveFinished(c, on, idx, leader_dist, time) ==
    IF idx >= Len(c.queues[on]) \/ c.queues[on][idx + 1] \notin DOMAIN c.cars
    THEN [c EXCEPT !.fatal = TRUE]
    ELSE LET leader == c.cars[c.queues[on][idx + 1]]
             rest == RemoveAt(c.queues[on], idx + 1)
             cars == MapRemove(c.cars, leader.id)
             removed == [ev |-> "remove", on |-> on, idx |-> idx, leader |-> leader.id,
                         leader_dist |-> leader_dist, leader_length |-> leader.length]
         IN  IF idx # Len(rest)
             THEN LET before == cars[rest[idx + 1]]
                      after == FixedFollower(before, on, leader_dist, leader.length, time)
                  IN  [c EXCEPT
                         !.queues[on] = rest,
                         !.cars = [cars EXCEPT ![before.id] = after],
                         !.events = Append(@, [removed EXCEPT !.ev = "remove_with_follower"]
                                              @@ [before |-> before, after |-> after])]
             ELSE [c EXCEPT !.queues[on] = rest, !.cars = cars,
                            !.events = Append(@, removed)]

\* Phase 2, the loop over the removals of queue on, from the i-th on.
RECURSIVE RemoveLoop(_, _, _, _, _)
RemoveLoop(c, on, order, i, time) ==
    IF i > Len(order) \/ c.fatal THEN c
    ELSE RemoveLoop(RemoveFinished(c, on, order[i].idx, order[i].dist, time),
                    on, order, i + 1, time)

\* Phase 2 for one queue: nothing if no car of it is on its last step; otherwise
\* the positions are computed once, every car is resolved, and the finished cars
\* are removed.
LastStepQueue(c, on, time) ==
    IF \A i \in 1..Len(c.queues[on]) : ~LastStep(c.cars[c.queues[on][i]].router)
    THEN c
    ELSE LET dists == GetCarPositions(c.queues[on], on, time, c.cars)
             r == ResolveLoop(c, on, dists, 1, <<>>, time)
         IN  RemoveLoop(r.c, on, DeleteOrder(r.delete_indices), 1, time)

\* Phase 2 of step_if_needed: the queues in the order of their keys, from the i-th.
RECURSIVE LastStepLoop(_, _, _)
LastStepLoop(c, i, time) ==
    IF i > Len(QueueOrder) \/ c.fatal THEN c
    ELSE LastStepLoop(LastStepQueue(c, QueueOrder[i], time), i + 1, time)

\* A plausible slip: a head car is collected whatever its state.
ReadyToAdvanceAnyState(car) == ~LastStep(car.router)

\* Whether the head car of a queue is collected in head_cars_ready_to_advance.
ReadyToAdvance(car) == car.state.tag = "Queued" /\ ~LastStep(car.router)

\* head_cars_ready_to_advance: the queues whose head car is Queued and not on its
\* last step, in the order of their keys, from the i-th queue on.
RECURSIVE HeadCarsReadyToAdvance(_, _)
HeadCarsReadyToAdvance(c, i) ==
    IF i > Len(QueueOrder) THEN <<>>
    ELSE LET on == QueueOrder[i]
             rest == HeadCarsReadyToAdvance(c, i + 1)
         IN  IF c.queues[on] # <<>> /\ ReadyToAdvance(c.cars[c.queues[on][1]])
             THEN <<on>> \o rest
             ELSE rest

\* A plausible slip: the head car is left in the queue it moves away from.
PopFrontForgotten(ids) == ids

\* VecDeque::pop_front on the cars of the queue the head car leaves.
PopFront(ids) == Tail(ids)

\* A plausible slip: the step a car has finished is reported to the intersections
\* as a finished turn wherever the car goes.
TurnFinishedAlways(goto) == TRUE

\* goto.maybe_lane().is_some(): the step finished was a turn, the car goes on to a
\* lane.
TurnFinished(goto) == goto \in Lanes

\* A plausible slip: the car handed on is put at the far end of where it goes.
EntryDistanceAtEnd(goto) == GeomLen(goto)

\* Distance::ZERO: a car handed on enters where it goes with its front at the start.
EntryDistance(goto) == 0

\* Phase 3, the hand-off itself: the head car of from is popped, the car behind it
\* is fixed, the leader's router advances, and the leader crosses goto from 0 at
\* its tail; leaving a turn for a lane, the turn is reported as finished.
HandOff(c, from, goto, time) ==
    LET leader_id == c.queues[from][1]
        leader == c.cars[leader_id]
        rest == PopFront(c.queues[from])
        handed == [ev |-> "hand_off", from |-> from, goto |-> goto, leader |-> leader_id,
                   leader_dist |-> GeomLen(from), leader_length |-> leader.length]
        fixed == IF rest # <<>>
                 THEN [c EXCEPT
                         !.queues[from] = rest,
                         !.cars[rest[1]] =
                             FixedFollower(@, from, GeomLen(from), leader.length, time),
                         !.events = Append(@, [handed EXCEPT !.ev = "hand_off_with_follower"]
                                              @@ [before |-> c.cars[rest[1]],
                                                  after |-> FixedFollower(c.cars[rest[1]], from,
                                                                GeomLen(from), leader.length,
                                                                time)])]
                 ELSE [c EXCEPT !.queues[from] = rest, !.events = Append(@, handed)]
        moved == [leader EXCEPT
                    !.router = Advance(@),
                    !.last_steps = TrimLastSteps(<<from>> \o @, leader.length),
                    !.state = CrossingState(goto, EntryDistance(goto), time)]
        finished == IF TurnFinished(goto)
                    THEN [fixed EXCEPT
                            !.world.accepted = @ \ {[car |-> leader_id, turn |-> from]},
                            !.events = Append(@, [ev |-> "turn_finished", car |-> leader_id,
                                                  turn |-> from])]
                    ELSE fixed
    IN  [finished EXCEPT !.cars[leader_id] = moved, !.queues[goto] = Append(@, leader_id)]

\* A plausible slip: a head car is handed on without a look at the end of where
\* it goes.
NoRoomNeverChecked(c, goto, time) == FALSE

\* Phase 3, the check that is always made: no hand-off to a queue without room at
\* its end.
NoRoom(c, goto, time) == ~RoomAtEnd(c.queues[goto], goto, time, c.cars)

\* A plausible slip: the intersection is asked before the end of the turn is
\* looked at, so that a turn is granted to a car that then stays where it is.
AttemptAskingFirst(c, from, grants, time) ==
    LET leader_id == c.queues[from][1]
        goto == RouterNext(c.cars[leader_id].router)
    IN  IF goto \in Turns
        THEN LET asked == [c EXCEPT !.events = Append(@, [ev |-> "maybe_start_turn",
                                                          car |-> leader_id, turn |-> goto,
                                                          granted |-> goto \in grants])]
                 granted == [asked EXCEPT !.world.accepted =
                                              @ \cup {[car |-> leader_id, turn |-> goto]}]
             IN  IF goto \notin grants THEN asked
                 ELSE IF NoRoom(c, goto, time) THEN granted
                 ELSE HandOff(granted, from, goto, time)
        ELSE IF NoRoom(c, goto, time) THEN c
        ELSE HandOff(c, from, goto, time)

\* Phase 3, one queue of head_cars_ready_to_advance: the head car moves on if
\* there is room at the end of where it goes and, for a turn, the intersection
\* starts the turn (it does for the turns in grants).
Attempt(c, from, grants, time) ==
    LET leader_id == c.queues[from][1]
        goto == RouterNext(c.cars[leader_id].router)
    IN  IF NoRoom(c, goto, time)
        THEN c
        ELSE IF goto \in Turns
        THEN LET asked == [c EXCEPT !.events = Append(@, [ev |-> "maybe_start_turn",
                                                          car |-> leader_id, turn |-> goto,
                                                          granted |-> goto \in grants])]
             IN  IF goto \notin grants THEN asked
                 ELSE HandOff([asked EXCEPT !.world.accepted =
                                                @ \cup {[car |-> leader_id, turn |-> goto]}],
                              from, goto, time)
        ELSE HandOff(c, from, goto, time)

\* What one attempt of Phase 3 found and did: the head car of from as it was, where
\* it goes, whether there was room and whether the turn is one the intersection
\* grants, and whether the car has left and whether any car or queue has changed.
Attempted(c, after, from, grants, time) ==
    LET leader_id == c.queues[from][1]
        goto == RouterNext(c.cars[leader_id].router)
    IN  [ev |-> "attempt", from |-> from, goto |-> goto, car |-> leader_id,
         queued |-> c.cars[leader_id].state = Queued,
         last_step |-> LastStep(c.cars[leader_id].router),
         room |-> RoomAtEnd(c.queues[goto], goto, time, c.cars),
         granted |-> goto \in grants,
         left |-> (after.queues[from] = <<>> \/ after.queues[from][1] # leader_id),
         arrived |-> (after.queues[goto] # <<>>
                      /\ after.queues[goto][Len(after.queues[goto])] = leader_id),
         same |-> (after.cars = c.cars /\ after.queues = c.queues)]

\* Phase 3 of step_if_needed: the queues collected, from the i-th on.
RECURSIVE AdvanceLoop(_, _, _, _, _)
AdvanceLoop(c, ready, i, grants, time) ==
    IF i > Len(ready) THEN c
    ELSE LET after == Attempt(c, ready[i], grants, time)
         IN  AdvanceLoop([after EXCEPT
                            !.events = Append(@, Attempted(c, after, ready[i], grants, time))],
                         ready, i + 1, grants, time)

\* DrivingSimState::step_if_needed: the three phases one after the other.
StepIfNeeded(d, w, time, grants) ==
    LET c1 == PromoteAll(Context(d, w), time)
        c2 == LastStepLoop(c1, 1, time)
    IN  IF c2.fatal THEN c2
        ELSE AdvanceLoop(c2, HeadCarsReadyToAdvance(c2, 1), 1, grants, time)

\* A plausible slip: the intersection at the source of the lane is not asked.
RefusedByQueueOnly(nobody_headed_towards, idx) == idx = {}

\* The two early returns of start_car_on_lane: somebody is headed towards the lane
\* from its source intersection, or the queue admits the car at no index.
Refused(nobody_headed_towards, idx) == ~nobody_headed_towards \/ idx = {}

\* DrivingSimState::start_car_on_lane: refused if somebody is headed towards the
\* first lane or the queue has no place for the car; otherwise the car is put in
\* the queue and in the cars table, Unparking if it was parked and Crossing if not.
StartCarOnLane(d, time, params, nobody_headed_towards) ==
    LET first_lane == RouterHead(params.router)
        idx == GetIdxToInsertCar(d.queues[first_lane], first_lane, params.start_dist,
                                 params.length, time, d.cars)
    IN  IF Refused(nobody_headed_towards, idx)
        THEN [d |-> d, ok |-> FALSE]
        ELSE LET state == IF params.maybe_parked_car
                          THEN Unparking(params.start_dist,
                                         Interval(time, time + TIME_TO_UNPARK))
                          ELSE CrossingState(first_lane, params.start_dist, time)
                 car == Car(params.id, params.length, params.router, state, <<>>)
             IN  [d |-> [cars |-> MapPut(d.cars, params.id, car),
                         queues |-> [d.queues EXCEPT ![first_lane] =
                                        InsertAt(@, CHOOSE i \in idx : TRUE, params.id)]],
                  ok |-> TRUE]

\* A call made on the driving simulation, with its arguments and its outcome.
DrivingCall(op, time, ok, params, answers, events, fatal) ==
    [op |-> op, time |-> time, ok |-> ok, params |-> params, answers |-> answers,
     events |-> events, fatal |-> fatal]

NoParams == [id |-> 0]

NoAnswers == [nobody |-> TRUE, idx |-> {}]

NoDrivingCall == DrivingCall("new", 0, TRUE, NoParams, NoAnswers, <<>>, FALSE)

\* ------------------------------------------------------------------ state

VARIABLES
    sched,    \* the scheduler
    last,     \* the last call made on sched, with its arguments and its outcome
    hist,     \* the latest calls that concerned the key Tracked, oldest first
    sched2,   \* a second scheduler, given the same calls as sched
    last2,    \* the last call made on sched2, with its outcome
    phase,    \* where the run is: "run", "restored", "saving", "saved", "drain"
    todo,     \* the (time, command) pairs to push on both schedulers; in
              \* SpecDrain, the commands queued when the draining began
    pushed,   \* the pairs pushed on sched so far, in the order of pushing; in
              \* SpecDrain, the commands returned since the draining began
    pushed2,  \* the pairs pushed on sched2 so far, in the order of pushing
    restore,  \* the paths before_savestate returned
    iter,     \* the order in which queued_commands is iterated, as long as it is not modified
    pre,      \* the scheduler as it was before before_savestate
    drive,    \* the driving simulation: its cars and its queues
    world,    \* the collaborators of the driving simulation
    now,      \* the time of the latest step of the driving simulation
    started,  \* the number of cars started so far
    called    \* the last call made on drive, with its arguments and its outcome

vars == <<sched, last, hist, sched2, last2, phase, todo, pushed, pushed2, restore, iter, pre,
          drive, world, now, started, called>>

\* The variables of the second scheduler and of the two insertion orders.
pairVars == <<sched2, last2, todo, pushed, pushed2>>

\* The variables of a savestate.
saveVars == <<restore, iter, pre>>

\* The variables of the scheduler specifications, and those of the driving
\* simulation.
schedVars == <<sched, last, hist, phase, pairVars, saveVars>>

driveVars == <<drive, world, now, started, called>>

\* The commands the callers schedule.
Commands == {SpawnCar(1, TRUE, 1), UpdateCar(1), UpdateIntersection(1)}

Call(op, time, cmd, fatal, item, out) ==
    [op |-> op, time |-> time, cmd |-> cmd, fatal |-> fatal, item |-> item, out |-> out]

NoCall == Call("new", START_OF_DAY, NoCommand, FALSE, NoItem, NoCommand)

\* A panic ends the program: no call follows it.
Alive == ~last.fatal

\* The number of push calls so far (cmd_type_counts counts them).
Pushes(s) == BagCardinality(s.cmd_type_counts)

DoPush(cmds) ==
    /\ Alive
    /\ Len(sched.items) < MaxItems
    /\ Pushes(sched) < MaxPushes
    /\ \E time \in Times, cmd \in cmds :
         LET r == Push(sched, time, cmd)
         IN  /\ sched' = r.s
             /\ last' = Call("push", time, cmd, r.fatal, NoItem, NoCommand)

DoUpdate(cmds) ==
    /\ Alive
    /\ Len(sched.items) < MaxItems
    /\ \E time \in Times, cmd \in cmds :
         LET r == Update(sched, time, cmd)
         IN  /\ sched' = r.s
             /\ last' = Call("update", time, cmd, r.fatal, NoItem, NoCommand)

DoCancel(cmds) ==
    /\ Alive
    /\ \E cmd \in cmds :
         /\ sched' = Cancel(sched, cmd)
         /\ last' = Call("cancel", START_OF_DAY, cmd, FALSE, NoItem, NoCommand)

DoGetNext ==
    /\ Alive
    /\ LET r == GetNext(sched)
       IN  /\ sched' = r.s
           /\ last' = Call("get_next", START_OF_DAY, NoCommand, r.fatal, r.item, r.out)

\* ------------------------------------------- specification Spec: any calls

Init ==
    /\ sched = NewScheduler
    /\ last = NoCall
    /\ hist = <<>>
    /\ sched2 = NewScheduler
    /\ last2 = NoCall
    /\ phase = "run"
    /\ todo = {}
    /\ pushed = <<>>
    /\ pushed2 = <<>>
    /\ restore = <<>>
    /\ iter = <<>>
    /\ pre = NewScheduler
    /\ drive = NewDrivingSimState
    /\ world = NewWorld
    /\ now = 0
    /\ started = 0
    /\ called = NoDrivingCall

CallPush == DoPush(Commands) /\ UNCHANGED <<hist, phase, pairVars, saveVars, driveVars>>

CallUpdate == DoUpdate(Commands) /\ UNCHANGED <<hist, phase, pairVars, saveVars, driveVars>>

CallCancel == DoCancel(Commands) /\ UNCHANGED <<hist, phase, pairVars, saveVars, driveVars>>

CallGetNext == DoGetNext /\ UNCHANGED <<hist, phase, pairVars, saveVars, driveVars>>

Next == CallPush \/ CallUpdate \/ CallCancel \/ CallGetNext

Spec == Init /\ [][Next]_vars

\* The heap's items as a bag: what the heap holds, whatever the insertion order.
ItemBag(items) ==
    LET range == {items[i] : i \in 1..Len(items)}
    IN  [x \in range |-> Cardinality({i \in 1..Len(items) : items[i] = x})]

\* C1: the times of the items popped by successive get_next calls never decrease:
\* every pop takes an item whose time is at least the latest_time the previous pop
\* left, and sets latest_time to it, whether or not a command is returned; no other
\* call moves latest_time.
C1_PopTimesNonDecreasing ==
    [][/\ sched'.latest_time >= sched.latest_time
       /\ (last'.op = "get_next" /\ ~last'.fatal)
            => (last'.item.time >= sched.latest_time /\ sched'.latest_time = last'.item.time)
       /\ (last'.op # "get_next") => sched'.latest_time = sched.latest_time]_vars

\* C1's case: a pop that returned no command has moved latest_time forward.
C1_Witness ==
    /\ last.op = "get_next"
    /\ ~last.fatal
    /\ last.out = NoCommand
    /\ sched.latest_time > START_OF_DAY
    /\ sched.items # <<>>

\* C2: get_next on a non-empty heap pops an item of least time, sets latest_time to
\* that time, and returns the command stored under the item's key exactly when the
\* table has an entry for the key scheduled no later than the item's time, removing
\* that entry; otherwise it returns none and leaves the table as it was.
C2_GetNextContract ==
    [][(last'.op = "get_next" /\ sched.items # <<>>) =>
        LET item == last'.item
            q == sched.queued_commands
            k == item.cmd_type
            live == k \in DOMAIN q /\ q[k].time <= item.time
        IN  /\ ~last'.fatal
            /\ \E i \in 1..Len(sched.items) : sched.items[i] = item
            /\ \A i \in 1..Len(sched.items) : sched.items[i].time >= item.time
            /\ ItemBag(sched'.items) (+) SetToBag({item}) = ItemBag(sched.items)
            /\ sched'.latest_time = item.time
            /\ sched'.last_time = sched.last_time
            /\ live => /\ last'.out = q[k].cmd
                       /\ k \notin DOMAIN sched'.queued_commands
                       /\ \A x \in DOMAIN q \ {k} :
                            x \in DOMAIN sched'.queued_commands
                            /\ sched'.queued_commands[x] = q[x]
                       /\ DOMAIN sched'.queued_commands \subseteq DOMAIN q
            /\ ~live => /\ last'.out = NoCommand
                        /\ sched'.queued_commands = q]_vars

\* C2's case: a pop returned the command of its key while another key stayed queued.
C2_Witness ==
    /\ last.op = "get_next"
    /\ last.out # NoCommand
    /\ ToType(last.out) = last.item.cmd_type
    /\ DOMAIN sched.queued_commands # {}

\* C5: a push whose key is already in the table is fatal and changes neither the
\* table nor the heap; and every entry of the table holds a command of the key it
\* is filed under, so no two live commands share a command key.
C5_PushOccupiedFatal ==
    /\ [](\A k \in DOMAIN sched.queued_commands : ToType(sched.queued_commands[k].cmd) = k)
    /\ [][(last'.op = "push" /\ ToType(last'.cmd) \in DOMAIN sched.queued_commands) =>
            /\ last'.fatal
            /\ sched'.queued_commands = sched.queued_commands
            /\ sched'.items = sched.items]_vars

\* C5's case: UpdateCar(c) was pushed, at an allowed time, while SpawnCar(c, _) was
\* queued: the push was fatal and SpawnCar(c, _) is still the command of key Car(c).
C5_Witness ==
    /\ last.op = "push"
    /\ last.fatal
    /\ last.time >= sched.latest_time
    /\ last.cmd.tag = "UpdateCar"
    /\ ToType(last.cmd) \in DOMAIN sched.queued_commands
    /\ sched.queued_commands[ToType(last.cmd)].cmd.tag = "SpawnCar"

\* C6: push and update with a time before latest_time are fatal and change nothing,
\* so every heap item, live or stale, has a time of at least latest_time.
C6_NoSchedulingInThePast ==
    /\ [](\A i \in 1..Len(sched.items) : sched.items[i].time >= sched.latest_time)
    /\ [][(last'.op \in {"push", "update"} /\ last'.time < sched.latest_time) =>
            (last'.fatal /\ sched' = sched)]_vars

\* C6's case: a push or update before latest_time was refused while the heap held
\* an item.
C6_Witness ==
    /\ last.op \in {"push", "update"}
    /\ last.fatal
    /\ last.time < sched.latest_time
    /\ sched.items # <<>>

\* C7: update at an allowed time is fatal (table and heap unchanged) when another
\* command is queued under the key; otherwise the table holds the command at the
\* new time, every other entry is unchanged, and the heap has gained the item
\* (time, key) and lost none.
C7_UpdateContract ==
    [][(last'.op = "update" /\ last'.time >= sched.latest_time) =>
        LET q == sched.queued_commands
            k == ToType(last'.cmd)
        IN  IF k \in DOMAIN q /\ q[k].cmd # last'.cmd
            THEN /\ last'.fatal
                 /\ sched'.queued_commands = q
                 /\ sched'.items = sched.items
            ELSE /\ ~last'.fatal
                 /\ DOMAIN sched'.queued_commands = DOMAIN q \cup {k}
                 /\ sched'.queued_commands[k] = [cmd |-> last'.cmd, time |-> last'.time]
                 /\ \A x \in DOMAIN q \ {k} : sched'.queued_commands[x] = q[x]
                 /\ ItemBag(sched'.items)
                      = ItemBag(sched.items) (+) SetToBag({Item(last'.time, k)})
                 /\ sched'.latest_time = sched.latest_time]_vars

\* C7's case: an update replaced the scheduled time of a queued command, and the
\* heap holds both the old item and the new one.
C7_Witness ==
    /\ last.op = "update"
    /\ ~last.fatal
    /\ Len(sched.items) = 2
    /\ sched.items[1].cmd_type = sched.items[2].cmd_type
    /\ sched.items[1].time # sched.items[2].time
    /\ sched.queued_commands[ToType(last.cmd)].time = last.time

\* ------------------- specification SpecHist: any calls, one key's history kept

\* The key whose calls are recorded.
Tracked == [kind |-> "Car", id |-> 1]

Event(ev, time, cmd) == [ev |-> ev, time |-> time, cmd |-> cmd]

\* The history after the call recorded in c.  A call that panicked, or that concerned
\* another key, is not recorded.  A push, update or cancel of the tracked key starts
\* the history afresh, except that an update keeps a push that came directly before
\* it.  A pop of an item of the tracked key is added as "deliver" when it returned
\* the command and as "stale" when it returned none.
Record(h, c) ==
    IF c.fatal THEN h
    ELSE IF c.op \in {"push", "update", "cancel"}
    THEN IF ToType(c.cmd) # Tracked THEN h
         ELSE IF c.op = "update" /\ h # <<>> /\ h[Len(h)].ev = "push"
         THEN <<h[Len(h)], Event(c.op, c.time, c.cmd)>>
         ELSE <<Event(c.op, c.time, c.cmd)>>
    ELSE IF c.item.cmd_type = Tracked
    THEN Append(h, Event(IF c.out = NoCommand THEN "stale" ELSE "deliver", c.item.time, c.out))
    ELSE h

\* The specifications that keep more than the scheduler and its last call make one
\* push fewer than MaxPushes allows (update schedules as push does).
MaxHistPushes == MaxPushes - 1

HistPush ==
    /\ Pushes(sched) < MaxHistPushes
    /\ DoPush(Commands)
    /\ ~last'.fatal
    /\ hist' = Record(hist, last')
    /\ UNCHANGED <<phase, pairVars, saveVars, driveVars>>

HistUpdate ==
    /\ DoUpdate(Commands)
    /\ ~last'.fatal
    /\ hist' = Record(hist, last')
    /\ UNCHANGED <<phase, pairVars, saveVars, driveVars>>

HistCancel ==
    /\ DoCancel(Commands)
    /\ hist' = Record(hist, last')
    /\ UNCHANGED <<phase, pairVars, saveVars, driveVars>>

HistGetNext ==
    /\ DoGetNext
    /\ ~last'.fatal
    /\ hist' = Record(hist, last')
    /\ UNCHANGED <<phase, pairVars, saveVars, driveVars>>

NextHist == HistPush \/ HistUpdate \/ HistCancel \/ HistGetNext

SpecHist == Init /\ [][NextHist]_vars

\* No push, update or cancel of the tracked key is recorded in hist[from..to].
Undisturbed(from, to) ==
    \A j \in from..to : hist[j].ev \notin {"push", "update", "cancel"}

\* No item of the tracked key is left in the heap.
Drained == \A i \in 1..Len(sched.items) : sched.items[i].cmd_type # Tracked

\* C3: after push(t1, cmd) directly followed (as far as the key is concerned) by
\* update(t2, cmd) with t2 > t1, and as long as the key is not pushed, updated or
\* cancelled again: cmd is returned at most once, only by a pop whose time is t2;
\* every pop of the key at time t1 returns none; and once the heap holds no item
\* of the key, cmd has been returned exactly once.
C3_UpdateReplacesTime ==
    \A i \in 1..(Len(hist) - 1) :
        (/\ hist[i].ev = "push"
         /\ hist[i + 1].ev = "update"
         /\ hist[i + 1].cmd = hist[i].cmd
         /\ hist[i + 1].time > hist[i].time
         /\ Undisturbed(i + 2, Len(hist)))
        => LET later == (i + 2)..Len(hist)
               delivered == {j \in later : hist[j].ev = "deliver"}
           IN  /\ Cardinality(delivered) <= 1
               /\ \A j \in delivered :
                    hist[j].time = hist[i + 1].time /\ hist[j].cmd = hist[i].cmd
               /\ \A j \in later : hist[j].time = hist[i].time => hist[j].ev = "stale"
               /\ Drained => Cardinality(delivered) = 1

\* C3's case: push(t1, cmd), update(t2, cmd) with t2 > t1, then the item left at t1
\* was popped with none and the command was returned by the pop at t2.
C3_Witness ==
    /\ Len(hist) = 4
    /\ hist[1].ev = "push"
    /\ hist[2].ev = "update"
    /\ hist[2].cmd = hist[1].cmd
    /\ hist[2].time > hist[1].time
    /\ hist[3] = Event("stale", hist[1].time, NoCommand)
    /\ hist[4] = Event("deliver", hist[2].time, hist[1].cmd)

\* C4: cancel changes nothing but the table, from which it removes the entry of
\* the command's key and no other; and after a cancel, until the key is pushed or
\* updated again, no pop returns a command of that key: every item of the key
\* popped meanwhile gives none.
C4_CancelContract ==
    /\ [][(last'.op = "cancel") =>
            LET q == sched.queued_commands
                k == ToType(last'.cmd)
            IN  /\ sched'.items = sched.items
                /\ sched'.latest_time = sched.latest_time
                /\ sched'.last_time = sched.last_time
                /\ DOMAIN sched'.queued_commands = DOMAIN q \ {k}
                /\ \A x \in DOMAIN q \ {k} : sched'.queued_commands[x] = q[x]]_vars
    /\ [](\A i \in 1..Len(hist) : \A j \in (i + 1)..Len(hist) :
            (/\ hist[i].ev = "cancel"
             /\ \A m \in (i + 1)..(j - 1) : hist[m].ev \notin {"push", "update"})
            => hist[j].ev # "deliver")

\* C4's case: the tracked key was cancelled while another key stayed queued, and
\* the heap item the cancel left behind has just been popped with none.
C4_Witness ==
    /\ Len(hist) = 2
    /\ hist[1].ev = "cancel"
    /\ hist[2].ev = "stale"
    /\ last.op = "get_next"
    /\ last.item.cmd_type = Tracked
    /\ Tracked \notin DOMAIN sched.queued_commands
    /\ DOMAIN sched.queued_commands # {}

\* ------- specification SpecOrder: one set of commands pushed in two orders

\* The commands of this specification: five keys, two of them of one kind.
OrderCommands ==
    {SpawnCar(1, TRUE, 1), UpdateCar(2), UpdateLaggyHead(1), SpawnPed(1, 2),
     UpdateIntersection(1)}

Pair(time, cmd) == [time |-> time, cmd |-> cmd]

\* The sets of at most MaxItems (time, command) pairs with distinct keys.
PairSets ==
    {S \in SUBSET {Pair(t, c) : t \in Times, c \in OrderCommands} :
        /\ S # {}
        /\ Cardinality(S) <= MaxItems
        /\ \A x, y \in S : x # y => ToType(x.cmd) # ToType(y.cmd)}

SeqRange(seq) == {seq[i] : i \in 1..Len(seq)}

InitOrder ==
    /\ sched = NewScheduler
    /\ last = NoCall
    /\ hist = <<>>
    /\ sched2 = NewScheduler
    /\ last2 = NoCall
    /\ phase = "run"
    /\ todo \in PairSets
    /\ pushed = <<>>
    /\ pushed2 = <<>>
    /\ restore = <<>>
    /\ iter = <<>>
    /\ pre = NewScheduler
    /\ drive = NewDrivingSimState
    /\ world = NewWorld
    /\ now = 0
    /\ started = 0
    /\ called = NoDrivingCall

\* The first scheduler is pushed one of the pairs it has not been pushed yet.
OrderPushFirst ==
    /\ \E x \in todo \ SeqRange(pushed) :
         /\ sched' = Push(sched, x.time, x.cmd).s
         /\ pushed' = Append(pushed, x)
    /\ UNCHANGED <<last, hist, sched2, last2, phase, todo, pushed2, saveVars, driveVars>>

\* The second scheduler is pushed one of the pairs it has not been pushed yet.
OrderPushSecond ==
    /\ \E x \in todo \ SeqRange(pushed2) :
         /\ sched2' = Push(sched2, x.time, x.cmd).s
         /\ pushed2' = Append(pushed2, x)
    /\ UNCHANGED <<sched, last, hist, last2, phase, todo, pushed, saveVars, driveVars>>

\* Once both hold every pair, get_next is called on both.
OrderGetNext ==
    /\ SeqRange(pushed) = todo
    /\ SeqRange(pushed2) = todo
    /\ sched.items # <<>>
    /\ sched2.items # <<>>
    /\ LET r == GetNext(sched)
           r2 == GetNext(sched2)
       IN  /\ sched' = r.s
           /\ last' = Call("get_next", START_OF_DAY, NoCommand, r.fatal, r.item, r.out)
           /\ sched2' = r2.s
           /\ last2' = Call("get_next", START_OF_DAY, NoCommand, r2.fatal, r2.item, r2.out)
    /\ UNCHANGED <<hist, phase, todo, pushed, pushed2, saveVars, driveVars>>

NextOrder == OrderPushFirst \/ OrderPushSecond \/ OrderGetNext

SpecOrder == InitOrder /\ [][NextOrder]_vars

\* C8: whatever the two orders in which the same (time, command) pairs with
\* distinct keys were pushed, the n-th get_next of the one scheduler and the n-th
\* get_next of the other pop the same item and return the same command, for every n;
\* and the command returned is the one of the pair with the least time.
C8_OrderIndependent ==
    /\ last.item = last2.item
    /\ last.out = last2.out
    /\ last.fatal = last2.fatal
    /\ last.op = "get_next" =>
         /\ last.out # NoCommand
         /\ Pair(last.item.time, last.out) \in todo
         /\ \A i \in 1..Len(sched.items) : sched.items[i].time >= last.item.time

\* C8's case: two commands scheduled for the same time were pushed in opposite
\* orders on the two schedulers, and get_next has returned one of them.
C8_Witness ==
    /\ Len(pushed) = 2
    /\ pushed2 = <<pushed[2], pushed[1]>>
    /\ pushed[1].time = pushed[2].time
    /\ last.op = "get_next"
    /\ last.out # NoCommand
    /\ sched.items # <<>>

\* ---- specification SpecRestore: a scheduler and its restored copy, same calls

\* The commands of this specification.
RestoreCommands == {SpawnCar(1, TRUE, 1), UpdateIntersection(1)}

\* Before the save: any calls that do not panic.
RunPush ==
    /\ phase = "run"
    /\ Pushes(sched) < MaxHistPushes
    /\ DoPush(RestoreCommands)
    /\ ~last'.fatal
    /\ UNCHANGED <<hist, phase, pairVars, saveVars, driveVars>>

RunUpdate ==
    /\ phase = "run"
    /\ DoUpdate(RestoreCommands)
    /\ ~last'.fatal
    /\ UNCHANGED <<hist, phase, pairVars, saveVars, driveVars>>

RunCancel ==
    /\ phase = "run"
    /\ DoCancel(RestoreCommands)
    /\ UNCHANGED <<hist, phase, pairVars, saveVars, driveVars>>

RunGetNext ==
    /\ phase = "run"
    /\ DoGetNext
    /\ ~last'.fatal
    /\ UNCHANGED <<hist, phase, pairVars, saveVars, driveVars>>

\* Between two calls the scheduler is serialized, and sched2 is what is read back.
SaveAndRestore ==
    /\ phase = "run"
    /\ \E order \in Orders(Len(sched.items)) :
         sched2' = Deserialize(Serialize(sched), order)
    /\ phase' = "restored"
    /\ last' = NoCall
    /\ last2' = NoCall
    /\ UNCHANGED <<sched, hist, todo, pushed, pushed2, saveVars, driveVars>>

\* After the restore every call is made on both schedulers.
BothPush ==
    /\ phase = "restored"
    /\ Alive
    /\ Len(sched.items) < MaxItems
    /\ Pushes(sched) < MaxPushes
    /\ \E time \in Times, cmd \in RestoreCommands :
         LET r == Push(sched, time, cmd)
             r2 == Push(sched2, time, cmd)
         IN  /\ sched' = r.s
             /\ last' = Call("push", time, cmd, r.fatal, NoItem, NoCommand)
             /\ sched2' = r2.s
             /\ last2' = Call("push", time, cmd, r2.fatal, NoItem, NoCommand)
    /\ UNCHANGED <<hist, phase, todo, pushed, pushed2, saveVars, driveVars>>

BothUpdate ==
    /\ phase = "restored"
    /\ Alive
    /\ Len(sched.items) < MaxItems
    /\ \E time \in Times, cmd \in RestoreCommands :
         LET r == Update(sched, time, cmd)
             r2 == Update(sched2, time, cmd)
         IN  /\ sched' = r.s
             /\ last' = Call("update", time, cmd, r.fatal, NoItem, NoCommand)
             /\ sched2' = r2.s
             /\ last2' = Call("update", time, cmd, r2.fatal, NoItem, NoCommand)
    /\ UNCHANGED <<hist, phase, todo, pushed, pushed2, saveVars, driveVars>>

BothCancel ==
    /\ phase = "restored"
    /\ Alive
    /\ \E cmd \in RestoreCommands :
         /\ sched' = Cancel(sched, cmd)
         /\ last' = Call("cancel", START_OF_DAY, cmd, FALSE, NoItem, NoCommand)
         /\ sched2' = Cancel(sched2, cmd)
         /\ last2' = Call("cancel", START_OF_DAY, cmd, FALSE, NoItem, NoCommand)
    /\ UNCHANGED <<hist, phase, todo, pushed, pushed2, saveVars, driveVars>>

BothGetNext ==
    /\ phase = "restored"
    /\ Alive
    /\ LET r == GetNext(sched)
           r2 == GetNext(sched2)
       IN  /\ sched' = r.s
           /\ last' = Call("get_next", START_OF_DAY, NoCommand, r.fatal, r.item, r.out)
           /\ sched2' = r2.s
           /\ last2' = Call("get_next", START_OF_DAY, NoCommand, r2.fatal, r2.item, r2.out)
    /\ UNCHANGED <<hist, phase, todo, pushed, pushed2, saveVars, driveVars>>

NextRestore ==
    \/ RunPush \/ RunUpdate \/ RunCancel \/ RunGetNext
    \/ SaveAndRestore
    \/ BothPush \/ BothUpdate \/ BothCancel \/ BothGetNext

SpecRestore == Init /\ [][NextRestore]_vars

\* C9: after a save and restore, every call made on both the original and the
\* restored scheduler has the same outcome on both: get_next pops the same item and
\* returns the same command (or none), and a call panics on the one exactly when it
\* panics on the other.
C9_RestoredSchedulerAgrees ==
    phase = "restored" =>
        /\ last2.op = last.op
        /\ last2.item = last.item
        /\ last2.out = last.out
        /\ last2.fatal = last.fatal

\* C9's case: the scheduler was restored without its diagnostic counters, nothing
\* was pushed since, and get_next on both schedulers has returned a command while
\* an item of the same time and of another key stays queued.
C9_Witness ==
    /\ phase = "restored"
    /\ last.op = "get_next"
    /\ last.out # NoCommand
    /\ Len(sched.items) = 1
    /\ sched.items[1].time = last.item.time
    /\ sched.items[1].cmd_type # last.item.cmd_type
    /\ sched.cmd_type_counts # EmptyBag
    /\ sched2.cmd_type_counts = EmptyBag

\* ------------- specification SpecSavestate: before_savestate, after_savestate

\* The commands of this specification: two that carry a path, one that does not.
SaveCommands == {SpawnCar(1, TRUE, 1), SpawnPed(1, 2), UpdateIntersection(1)}

\* A call between savestates forgets the last savestate.
Resumed ==
    /\ phase' = "run"
    /\ restore' = <<>>
    /\ iter' = <<>>
    /\ pre' = NewScheduler
    /\ UNCHANGED <<hist, pairVars, driveVars>>

SavePush ==
    /\ phase \in {"run", "saved"}
    /\ Pushes(sched) < MaxHistPushes
    /\ DoPush(SaveCommands)
    /\ ~last'.fatal
    /\ Resumed

SaveUpdate ==
    /\ phase \in {"run", "saved"}
    /\ DoUpdate(SaveCommands)
    /\ ~last'.fatal
    /\ Resumed

SaveCancel ==
    /\ phase \in {"run", "saved"}
    /\ DoCancel(SaveCommands)
    /\ Resumed

SaveGetNext ==
    /\ phase \in {"run", "saved"}
    /\ DoGetNext
    /\ ~last'.fatal
    /\ Resumed

\* before_savestate is called; the order in which the table is iterated is any.
DoBeforeSavestate ==
    /\ phase \in {"run", "saved"}
    /\ Alive
    /\ \E order \in IterOrders(sched.queued_commands) :
         LET r == BeforeSavestate(sched, order)
         IN  /\ sched' = r.s
             /\ restore' = r.restore
             /\ iter' = order
    /\ pre' = sched
    /\ phase' = "saving"
    /\ last' = Call("before_savestate", START_OF_DAY, NoCommand, FALSE, NoItem, NoCommand)
    /\ UNCHANGED <<hist, pairVars, driveVars>>

\* after_savestate is called with the list before_savestate returned; the table was
\* not modified, so it is iterated in the same order.
DoAfterSavestate ==
    /\ phase = "saving"
    /\ LET r == AfterSavestate(sched, restore, iter)
       IN  /\ sched' = r.s
           /\ restore' = r.restore
           /\ last' = Call("after_savestate", START_OF_DAY, NoCommand, r.fatal, NoItem, NoCommand)
    /\ phase' = "saved"
    /\ UNCHANGED <<hist, pairVars, iter, pre, driveVars>>

NextSavestate ==
    \/ SavePush \/ SaveUpdate \/ SaveCancel \/ SaveGetNext
    \/ DoBeforeSavestate \/ DoAfterSavestate

SpecSavestate == Init /\ [][NextSavestate]_vars

\* The paths of the commands of table q that carry one.
PathsOf(q) == {q[k].cmd.path : k \in {x \in DOMAIN q : CarriesPath(q[x].cmd)}}

\* C10: between before_savestate and after_savestate every queued command that
\* carries a path carries the placeholder, every other command and every scheduled
\* time is as before, and the list returned holds the paths taken; after
\* after_savestate, which does not panic, queued_commands (and the rest of the
\* scheduler) is as it was before before_savestate and the list is used up.
C10_SavestateRoundTrip ==
    /\ phase = "saving" =>
         LET q == sched.queued_commands
             q0 == pre.queued_commands
         IN  /\ DOMAIN q = DOMAIN q0
             /\ \A k \in DOMAIN q :
                  /\ q[k].time = q0[k].time
                  /\ CarriesPath(q0[k].cmd) =>
                       q[k].cmd = [q0[k].cmd EXCEPT !.path = DummyPath]
                  /\ ~CarriesPath(q0[k].cmd) => q[k].cmd = q0[k].cmd
             /\ SeqRange(restore) = PathsOf(q0)
             /\ Len(restore) = Cardinality({k \in DOMAIN q0 : CarriesPath(q0[k].cmd)})
    /\ phase = "saved" =>
         /\ ~last.fatal
         /\ sched.queued_commands = pre.queued_commands
         /\ sched = pre
         /\ restore = <<>>

\* C10's case: two queued spawn commands with different paths went through
\* before_savestate and after_savestate, the SpawnPed being iterated first.
C10_Witness ==
    /\ phase = "saved"
    /\ Len(iter) = 2
    /\ sched.queued_commands[iter[1]].cmd = SpawnPed(1, 2)
    /\ sched.queued_commands[iter[2]].cmd = SpawnCar(1, TRUE, 1)

\* ---- specification SpecDriving: cars started on one lane and stepped to their end

\* No more than MaxCars cars are started in one run, none of them after time
\* MaxStartTime, and time stops at MaxNow.
MaxCars == 2
MaxStartTime == 1
MaxNow == 17

\* The lengths of the vehicles, and how far time moves between two steps.
Lengths == {1, 2}

Deltas == {1}

\* Where the front of a car is when it is started: at the end of the lane, or far
\* enough before it for a car to be in front.
StartDists == {2, 4}

\* What a car does at the end of its path.
Goals == {[kind |-> "Border"], [kind |-> "Bike"], [kind |-> "Bus"]}
             \cup {[kind |-> "Park", spot |-> s] : s \in Spots}

\* The routers of this specification: the path ends on its first lane, L1, with
\* any end action, at the end of the lane or before it, or it goes over turn T1 to
\* the border at the end of lane L2.
LaneRouters ==
    {Router(<<"L1">>, goal, end_dist) : goal \in Goals, end_dist \in StartDists}
        \cup {Router(<<"L1", "T1", "L2">>, [kind |-> "Border"], GeomLen("L2"))}

\* CreateCar, as far as start_car_on_lane reads it.
CreateCar(id, length, router, start_dist, maybe_parked_car) ==
    [id |-> id, length |-> length, router |-> router, start_dist |-> start_dist,
     maybe_parked_car |-> maybe_parked_car]

\* The cars that may be started next with one of the routers given: a fresh id,
\* and a front at which the whole vehicle is on the lane.
NextCars(routers) ==
    {CreateCar(started + 1, length, router, start_dist, parked) :
        length \in Lengths, router \in routers, start_dist \in StartDists,
        parked \in BOOLEAN}

\* A spawn command for one of the cars given is carried out at the current time;
\* the intersections answer one of the values given.  Of a refused call only the
\* answers it got are kept: whether nobody is headed towards the lane, and the
\* index the queue admits the car at.
DoStartCarOnLane(next_cars, max_cars, intersections) ==
    /\ ~called.fatal
    /\ started < max_cars
    /\ now <= MaxStartTime
    /\ \E params \in next_cars, nobody_headed_towards \in intersections :
         \E r \in {StartCarOnLane(drive, now, params, nobody_headed_towards)},
            idx \in {GetIdxToInsertCar(drive.queues[RouterHead(params.router)],
                                       RouterHead(params.router), params.start_dist,
                                       params.length, now, drive.cars)} :
             /\ drive' = r.d
             /\ started' = IF r.ok THEN started + 1 ELSE started
             /\ called' = DrivingCall("start_car_on_lane", now, r.ok,
                                      IF r.ok THEN params ELSE NoParams,
                                      [nobody |-> nobody_headed_towards, idx |-> idx],
                                      <<>>, FALSE)
    /\ UNCHANGED <<world, now, schedVars>>

\* Time moves on by one of the deltas given and the driving simulation is stepped;
\* of the turns given, the intersections grant those in grants to whoever asks in
\* this step.
DoStepIfNeeded(turns, deltas) ==
    /\ ~called.fatal
    /\ \E dt \in deltas, grants \in SUBSET turns :
         /\ now + dt <= MaxNow
         /\ \E c \in {StepIfNeeded(drive, world, now + dt, grants)} :
                /\ drive' = [cars |-> c.cars, queues |-> c.queues]
                /\ world' = c.world
                /\ now' = now + dt
                /\ called' = DrivingCall("step_if_needed", now + dt, TRUE, NoParams,
                                         NoAnswers, c.events, c.fatal)
    /\ UNCHANGED <<started, schedVars>>

CallStartCarOnLane == DoStartCarOnLane(NextCars(LaneRouters), MaxCars, BOOLEAN)

CallStepIfNeeded == DoStepIfNeeded({"T1"}, Deltas)

NextDriving == CallStartCarOnLane \/ CallStepIfNeeded

SpecDriving == Init /\ [][NextDriving]_vars

\* ---- specification SpecHandOff: cars started on a path over a turn

\* The routers of this specification: over turn T1 or turn T2 to the border at the
\* end of lane L2.
TurnRouters ==
    {Router(<<"L1", "T1", "L2">>, [kind |-> "Border"], GeomLen("L2")),
     Router(<<"L3", "T2", "L2">>, [kind |-> "Border"], GeomLen("L2"))}

HandOffStartCarOnLane == DoStartCarOnLane(NextCars(TurnRouters), MaxCars, BOOLEAN)

HandOffStepIfNeeded == DoStepIfNeeded(Turns, Deltas)

NextHandOff == HandOffStartCarOnLane \/ HandOffStepIfNeeded

SpecHandOff == Init /\ [][NextHandOff]_vars

\* The places a car id holds in the queues: (queue, index) pairs.
PlacesOf(d, id) ==
    {<<on, i>> \in Traversables \X (1..MaxCars + 1) :
        i <= Len(d.queues[on]) /\ d.queues[on][i] = id}

\* C11: whatever cars were started or refused and whatever steps were made, every
\* car of the cars table is in exactly one queue, exactly once, and every car id a
\* queue holds is a key of the cars table.
C11_CarLocality ==
    /\ \A id \in DOMAIN drive.cars : Cardinality(PlacesOf(drive, id)) = 1
    /\ \A on \in Traversables : \A i \in 1..Len(drive.queues[on]) :
         drive.queues[on][i] \in DOMAIN drive.cars

\* C11's case: one car has reached the border and left the cars table, and the
\* step just made has handed the other car from its turn to lane L2.
C11_Witness ==
    /\ called.op = "step_if_needed"
    /\ \E i \in 1..Len(called.events) : called.events[i].ev = "turn_finished"
    /\ world.reached_border # EmptyBag
    /\ Cardinality(DOMAIN drive.cars) = 1
    /\ drive.queues["L2"] # <<>>

\* The front of car id at a time, as its queue computes it.
FrontOf(d, id, time) ==
    LET on == CHOOSE t \in Traversables : \E i \in 1..Len(d.queues[t]) : d.queues[t][i] = id
        dists == GetCarPositions(d.queues[on], on, time, d.cars)
    IN  (CHOOSE p \in {dists[i] : i \in 1..Len(dists)} : p.id = id).dist

\* The events of a call of the kind given.
EventsOf(events, ev) == {i \in 1..Len(events) : events[i].ev = ev}

\* The place of car id in the queue ids, head first.
IndexIn(ids, id) == CHOOSE i \in 1..Len(ids) : ids[i] = id

\* C12: at the time of the latest call and at every later time, in every queue the
\* rear of each car is at least FOLLOWING_DISTANCE before the front of the car
\* behind it (fronts as get_car_positions computes them), and no car is held back
\* to a front before the start of the queue.  The driving simulation places no car where the queue
\* would have to hold it back to keep that distance: a car just started has its
\* front at its start_dist, the cars that were in the queue have the fronts they
\* had before, the rear of every car before it is at least FOLLOWING_DISTANCE
\* beyond start_dist and the front of every car behind it at least
\* FOLLOWING_DISTANCE before its rear; a car just handed on has its front at 0,
\* and the rear of the car before it is at least FOLLOWING_DISTANCE beyond 0.
C12_FollowingDistanceKept ==
    /\ [](\A on \in Traversables :
            (Len(drive.queues[on]) > 1) =>
               \A time \in now..MaxNow :
                  \E dists \in {GetCarPositions(drive.queues[on], on, time, drive.cars)} :
                     /\ \A i \in 1..(Len(dists) - 1) :
                           dists[i].dist - drive.cars[dists[i].id].length
                               >= dists[i + 1].dist + FOLLOWING_DISTANCE
                     /\ \A i \in 1..Len(dists) : dists[i].dist >= 0)
    /\ [][(called'.op = "start_car_on_lane" /\ called'.ok) =>
            LET params == called'.params
                on == RouterHead(params.router)
                ids == drive'.queues[on]
                at == IndexIn(ids, params.id)
            IN  /\ FrontOf(drive', params.id, now') = params.start_dist
                /\ \A i \in 1..Len(ids) :
                      (i # at) =>
                         /\ FrontOf(drive', ids[i], now') = FrontOf(drive, ids[i], now')
                         /\ (i < at) =>
                               FrontOf(drive, ids[i], now') - drive.cars[ids[i]].length
                                   >= params.start_dist + FOLLOWING_DISTANCE
                         /\ (i > at) =>
                               params.start_dist - params.length
                                   >= FrontOf(drive, ids[i], now') + FOLLOWING_DISTANCE]_vars
    /\ [][called'.op = "step_if_needed" =>
            \A i \in EventsOf(called'.events, "attempt") :
               called'.events[i].left =>
                  LET ids == drive'.queues[called'.events[i].goto]
                  IN  /\ ids[Len(ids)] = called'.events[i].car
                      /\ FrontOf(drive', called'.events[i].car, now') = 0
                      /\ Len(ids) > 1 =>
                            FrontOf(drive', ids[Len(ids) - 1], now')
                                  - drive'.cars[ids[Len(ids) - 1]].length
                               >= 0 + FOLLOWING_DISTANCE]_vars

\* C12's case: a car has just been handed on to the tail of a queue that holds
\* another car.
C12_Witness ==
    /\ called.op = "step_if_needed"
    /\ \E i \in 1..Len(called.events) :
         /\ called.events[i].ev = "attempt"
         /\ called.events[i].left
         /\ Len(drive.queues[called.events[i].goto]) = 2

\* The cars of the table that are in state Parking.
ParkingCars(d) == {id \in DOMAIN d.cars : d.cars[id].state.tag = "Parking"}

\* ---- specification SpecPark: cars that park on lane L1, stepped by 1 s or 3 s

\* The routers of this specification: the path ends on lane L1 at spot S1, which
\* the car has reached at the end of the lane or before it.
ParkRouters == {Router(<<"L1">>, [kind |-> "Park", spot |-> "S1"], end_dist) :
                   end_dist \in StartDists}

\* The steps of time of this specification: with the longer one, two cars that
\* were started together on the lane are Queued in the same step.
ParkDeltas == {1, 3}

\* No turn leads to lane L1 for these cars, so nobody is ever headed towards it.
ParkStartCarOnLane == DoStartCarOnLane(NextCars(ParkRouters), MaxCars, {TRUE})

ParkStepIfNeeded == DoStepIfNeeded({}, ParkDeltas)

NextPark == ParkStartCarOnLane \/ ParkStepIfNeeded

SpecPark == Init /\ [][NextPark]_vars

\* The calls of Phase 2 to maybe_handle_end in the events of a step that sent a car
\* to park: the car is Parking in d, the state after the step.
ParkingAnswers(events, d) ==
    {i \in EventsOf(events, "maybe_handle_end") :
        /\ events[i].action.tag = "StartParking"
        /\ events[i].car \in ParkingCars(d)}

\* C13: a car enters Parking only from Queued on its last step, for 15 s from the
\* time of the step, and the spot is reserved in that same step; and (the router
\* answering StartParking for no reserved spot) no two cars are Parking for the
\* same spot at the same time: in a step, once a car has been sent to park at a
\* spot, no car asked after it in that step is sent to that spot, whether or not
\* it has reached the distance at which it would park.
C13_ParkingReserved ==
    /\ [](\A a, b \in ParkingCars(drive) :
            drive.cars[a].state.spot = drive.cars[b].state.spot => a = b)
    /\ [](\A a \in ParkingCars(drive) : drive.cars[a].state.spot \in world.reserved)
    /\ [][\A id \in ParkingCars(drive') :
            (id \notin ParkingCars(drive))
               => /\ id \in DOMAIN drive.cars
                  /\ drive.cars[id].state.tag \in {"Queued", "Crossing"}
                  /\ LastStep(drive.cars[id].router)
                  /\ called'.op = "step_if_needed"
                  /\ drive'.cars[id].state.time_int
                        = Interval(called'.time, called'.time + TIME_TO_PARK)
                  /\ drive'.cars[id].state.spot \in world'.reserved
                  /\ drive'.cars[id].state.spot \notin world.reserved]_vars
    /\ [][called'.op = "step_if_needed" =>
            \A i \in ParkingAnswers(called'.events, drive') :
               /\ \A j \in EventsOf(called'.events, "maybe_handle_end") :
                     (j > i) => called'.events[j].action # called'.events[i].action
               /\ \A k \in EventsOf(called'.events, "reserve_spot") :
                     called'.events[k].car = called'.events[i].car
                        => /\ k = i + 1
                           /\ called'.events[k].spot = called'.events[i].action.spot]_vars

\* C13's case: two cars of one queue were Queued at or beyond the distance at
\* which they park at the same spot, in the same step; the first was told to park
\* and has entered Parking, and the second, asked after it in that step, was told
\* to go on to the end of the lane because the spot was reserved by then.
C13_Witness ==
    /\ called.op = "step_if_needed"
    /\ \E i \in ParkingAnswers(called.events, drive) :
       \E j \in EventsOf(called.events, "maybe_handle_end") :
         /\ i < j
         /\ drive.cars[called.events[i].car].state.time_int.start = called.time
         /\ called.events[j].car # called.events[i].car
         /\ called.events[j].car \in DOMAIN drive.cars
         /\ drive.cars[called.events[j].car].router.goal
               = [kind |-> "Park", spot |-> called.events[i].action.spot]
         /\ called.events[j].dist >= drive.cars[called.events[j].car].router.end_dist
         /\ called.events[j].action = GotoLaneEnd
         /\ drive.cars[called.events[j].car].state
               = CrossingState("L1", called.events[j].dist, called.time)
         /\ drive.queues["L1"] = <<called.events[i].car, called.events[j].car>>

\* The queue that holds car id.
QueueOf(d, id) ==
    CHOOSE on \in Traversables : \E i \in 1..Len(d.queues[on]) : d.queues[on][i] = id

\* C14: in Phase 3 the car an attempt is made for is the head of its queue; it
\* leaves the queue exactly when it is Queued, not on its last step, there is room
\* at the end of where it goes and, for a turn, the intersection grants the turn,
\* and then it is at the tail of where it goes; otherwise the attempt changes no
\* car and no queue, and after the step the car is still Queued at the head of
\* its queue.  No car changes its queue in a step but by such an attempt.
C14_HandOffOnlyWhenAdmitted ==
    [][/\ \A i \in 1..Len(called'.events) :
            LET e == called'.events[i]
            IN  e.ev = "attempt" =>
                  /\ e.left <=> (/\ e.queued
                                 /\ ~e.last_step
                                 /\ e.room
                                 /\ (e.goto \in Turns => e.granted))
                  /\ e.left => e.arrived
                  /\ ~e.left => /\ e.same
                                /\ drive'.queues[e.from][1] = e.car
                                /\ drive'.cars[e.car].state = Queued
       /\ \A id \in DOMAIN drive.cars \cap DOMAIN drive'.cars :
            QueueOf(drive', id) # QueueOf(drive, id) =>
               \E i \in 1..Len(called'.events) :
                  /\ called'.events[i].ev = "attempt"
                  /\ called'.events[i].car = id
                  /\ called'.events[i].left
                  /\ called'.events[i].from = QueueOf(drive, id)
                  /\ called'.events[i].goto = QueueOf(drive', id)
                  /\ called'.events[i].goto = RouterNext(drive.cars[id].router)]_vars

\* C14's case: in one step the head car of lane L1 had no room at the end of its
\* turn and stayed, and the car on the turn was handed on to its lane.
C14_Witness ==
    /\ called.op = "step_if_needed"
    /\ \E i, j \in 1..Len(called.events) :
         /\ called.events[i].ev = "attempt"
         /\ ~called.events[i].room
         /\ ~called.events[i].left
         /\ called.events[j].ev = "attempt"
         /\ called.events[j].left
         /\ called.events[j].from = called.events[i].goto

\* The followers fixed in a call: the events of the removals and hand-offs that
\* left a car directly behind the one that went.
FollowerFixes(events) ==
    {i \in 1..Len(events) : events[i].ev \in {"remove_with_follower", "hand_off_with_follower"}}

\* C15: when a car leaves a queue in a step and a car directly behind it remains,
\* a Queued follower becomes Crossing from the leader's front less the leader's
\* length (as it was before the step) less FOLLOWING_DISTANCE, the leader's front
\* being its computed front for a removal and the length of the segment for a
\* hand-off; a follower in any other state is left as it was.
C15_FollowerResynthesized ==
    [][\A i \in FollowerFixes(called'.events) :
         LET e == called'.events[i]
             leader_front == IF e.ev = "hand_off_with_follower" THEN GeomLen(e.from)
                             ELSE FrontOf(drive, e.leader, now')
             start == leader_front - drive.cars[e.leader].length - FOLLOWING_DISTANCE
             on == QueueOf(drive, e.leader)
         IN  /\ e.leader_dist = leader_front
             /\ QueueOf(drive, e.before.id) = on
             /\ drive'.cars[e.before.id] = e.after
             /\ IF e.before.state = Queued
                THEN e.after = [e.before EXCEPT !.state =
                                   Crossing(Interval(now', now' + (GeomLen(on) - start)),
                                            Interval(start, GeomLen(on)))]
                ELSE e.after = e.before]_vars

\* C15's case: a car of length 1 has been removed in front of a Queued car of
\* length 2, which is now Crossing.
C15_Witness ==
    /\ called.op = "step_if_needed"
    /\ \E i \in FollowerFixes(called.events) :
         /\ called.events[i].ev = "remove_with_follower"
         /\ called.events[i].before.state = Queued
         /\ called.events[i].leader_length # called.events[i].before.length
         /\ drive.cars[called.events[i].before.id].state.tag = "Crossing"

\* The cars that cross the last step of their path at the head of their queue and
\* vanish at the border when they have crossed it.
CrossingToBorder(d) ==
    {id \in DOMAIN d.cars :
        /\ d.cars[id].state.tag = "Crossing"
        /\ LastStep(d.cars[id].router)
        /\ d.cars[id].router.goal.kind = "Border"
        /\ d.queues[QueueOf(d, id)][1] = id}

\* C16: a step at a time not after the end of its crossing interval leaves such a
\* car as it is; the first step after that end asks the router of the car, then
\* Queued at the end of the segment, for its end action, which is VanishAtBorder,
\* and removes the car from its queue and from the cars table, telling trips that
\* it reached the border.  Over a whole run trips is told once of a car at most,
\* and never of a car still in the table.
C16_VanishAtBorder ==
    /\ [](\A id \in BagToSet(world.reached_border) :
             /\ CopiesIn(id, world.reached_border) = 1
             /\ id \notin DOMAIN drive.cars)
    /\ [][called'.op = "step_if_needed" =>
            \A id \in CrossingToBorder(drive) :
               IF now' <= drive.cars[id].state.time_int.end
               THEN /\ id \in DOMAIN drive'.cars
                    /\ drive'.cars[id] = drive.cars[id]
                    /\ drive'.queues[QueueOf(drive, id)][1] = id
                    /\ ~BagIn(id, world'.reached_border)
               ELSE /\ id \notin DOMAIN drive'.cars
                    /\ PlacesOf(drive', id) = {}
                    /\ CopiesIn(id, world'.reached_border) = 1
                    /\ \E i \in 1..Len(called'.events) :
                          called'.events[i] = [ev |-> "maybe_handle_end", car |-> id,
                                               dist |-> GeomLen(QueueOf(drive, id)),
                                               action |-> VanishAtBorder]]_vars

\* C16's case: a car that took more than one step to cross its lane has been asked
\* at the end of the lane, has vanished there, and trips has been told once.
C16_Witness ==
    /\ called.op = "step_if_needed"
    /\ called.time > 2
    /\ \E i \in 1..Len(called.events) :
         /\ called.events[i].ev = "maybe_handle_end"
         /\ called.events[i].action = VanishAtBorder
         /\ called.events[i].dist = GeomLen("L1")
         /\ called.events[i].car \notin DOMAIN drive.cars
         /\ CopiesIn(called.events[i].car, world.reached_border) = 1

\* The buses of the table that reach their stop in a step at the time given: on
\* the last step of their path and Queued by then, with their front at the
\* distance the router stops at or beyond it.
ArrivingBuses(d, time) ==
    {id \in DOMAIN d.cars :
        /\ LastStep(d.cars[id].router)
        /\ d.cars[id].router.goal.kind = "Bus"
        /\ \/ d.cars[id].state = Queued
           \/ d.cars[id].state.tag = "Crossing" /\ time > d.cars[id].state.time_int.end
        /\ FrontOf(d, id, time) >= d.cars[id].router.end_dist}

\* The cars of the table in state Idling.
IdlingCars(d) == {id \in DOMAIN d.cars : d.cars[id].state.tag = "Idling"}

\* C17: a bus that reaches its stop in a step at time t with its front at dist is
\* Idling(dist, [t, t + TIME_TO_WAIT_AT_STOP]) after the step, and transit has been
\* told of its arrival once; an Idling car is left as it is and in its queue by
\* every step at a time not after the end of its interval, and the first step
\* after it gives the car the router transit supplies and makes it Crossing from
\* the distance it idled at, in the queue it was in.
C17_BusAtStop ==
    [][called'.op = "step_if_needed" =>
         /\ \A id \in ArrivingBuses(drive, now') :
              /\ id \in DOMAIN drive'.cars
              /\ drive'.cars[id] =
                    [drive.cars[id] EXCEPT !.state =
                        Idling(FrontOf(drive, id, now'),
                               Interval(now', now' + TIME_TO_WAIT_AT_STOP))]
              /\ QueueOf(drive', id) = QueueOf(drive, id)
              /\ CopiesIn(id, world'.bus_arrived) = CopiesIn(id, world.bus_arrived) + 1
              /\ Cardinality({i \in 1..Len(called'.events) :
                                 called'.events[i] = [ev |-> "bus_arrived_at_stop",
                                                      car |-> id]}) = 1
         /\ \A id \in IdlingCars(drive) :
              /\ id \in DOMAIN drive'.cars
              /\ QueueOf(drive', id) = QueueOf(drive, id)
              /\ CopiesIn(id, world'.bus_arrived) = CopiesIn(id, world.bus_arrived)
              /\ IF now' <= drive.cars[id].state.time_int.end
                 THEN drive'.cars[id] = drive.cars[id]
                 ELSE LET dist == drive.cars[id].state.front
                          on == QueueOf(drive, id)
                      IN  drive'.cars[id] =
                             [drive.cars[id] EXCEPT
                                !.router = BusDepartedFromStop(drive.cars[id].router),
                                !.state = Crossing(Interval(now', now' + (GeomLen(on) - dist)),
                                                   Interval(dist, GeomLen(on)))]]_vars

\* C17's case: a bus that idled at a stop before the end of lane L1 has been given
\* the router for the rest of its route and crosses the lane from the stop on.
C17_Witness ==
    /\ called.op = "step_if_needed"
    /\ \E i \in 1..Len(called.events) :
         /\ called.events[i].ev = "bus_departed_from_stop"
         /\ called.events[i].car \in DOMAIN drive.cars
         /\ CopiesIn(called.events[i].car, world.bus_arrived) = 1
         /\ LET car == drive.cars[called.events[i].car]
            IN  /\ car.state.tag = "Crossing"
                /\ car.state.time_int.start = now
                /\ car.state.dist_int.start < GeomLen("L1")
                /\ ~LastStep(car.router)
                /\ QueueOf(drive, car.id) = "L1"

\* C18: a call of start_car_on_lane at time t is refused, and leaves the cars
\* table and every queue as they were, if somebody is headed towards the first
\* lane or the queue admits the car at no index; otherwise it returns true, the id
\* of the car is in the queue of the first lane at the index admitted, the cars
\* of the queue before and behind it in their order, and the car is new in the
\* table, Unparking(start_dist, [t, t + TIME_TO_UNPARK]) if it was parked and
\* Crossing from start_dist to the end of the lane if not.
C18_StartCarOnLaneContract ==
    [][called'.op = "start_car_on_lane" =>
         IF ~called'.answers.nobody \/ called'.answers.idx = {}
         THEN ~called'.ok /\ drive' = drive
         ELSE LET p == called'.params
                  first_lane == RouterHead(p.router)
                  old == drive.queues[first_lane]
                  new == drive'.queues[first_lane]
              IN  /\ called'.ok
                  /\ \A on \in Traversables \ {first_lane} :
                        drive'.queues[on] = drive.queues[on]
                  /\ Len(new) = Len(old) + 1
                  /\ \E idx \in called'.answers.idx :
                        /\ new[idx + 1] = p.id
                        /\ \A j \in 1..Len(old) :
                              old[j] = IF j <= idx THEN new[j] ELSE new[j + 1]
                  /\ p.id \notin DOMAIN drive.cars
                  /\ DOMAIN drive'.cars = DOMAIN drive.cars \cup {p.id}
                  /\ \A id \in DOMAIN drive.cars : drive'.cars[id] = drive.cars[id]
                  /\ drive'.cars[p.id] =
                        [id |-> p.id, length |-> p.length, router |-> p.router,
                         last_steps |-> <<>>,
                         state |->
                            IF p.maybe_parked_car
                            THEN Unparking(p.start_dist, Interval(now, now + TIME_TO_UNPARK))
                            ELSE Crossing(Interval(now, now + (GeomLen(first_lane)
                                                                  - p.start_dist)),
                                          Interval(p.start_dist, GeomLen(first_lane)))]]_vars

\* C18's case: a parked car has been started in front of the car that was on the
\* lane, at the head of the queue.
C18_Witness ==
    /\ called.op = "start_car_on_lane"
    /\ called.ok
    /\ called.params.maybe_parked_car
    /\ Len(drive.queues["L1"]) = 2
    /\ drive.queues["L1"][1] = called.params.id
    /\ drive.cars[called.params.id].state.tag = "Unparking"

\* ---- specification SpecFinish: cars that end their trip on the long lane

\* No more than MaxFinishCars cars are started on lane L4 in one run.
MaxFinishCars == 4

\* Between two steps time moves on by a tick, or by as much as a car needs to
\* park, in which every car reaches the end of the lane.
FinishDeltas == {1, 16}

\* The cars of this specification are of length 1, have not been parked and start
\* at one of four places of lane L4.  Their path is the lane; they vanish at the
\* border or park at the end of it, or stop biking some way before it.
FinishRouters ==
    {Router(<<"L4">>, [kind |-> "Border"], GeomLen("L4")),
     Router(<<"L4">>, [kind |-> "Bike"], 2),
     Router(<<"L4">>, [kind |-> "Park", spot |-> "S1"], GeomLen("L4"))}

FinishCars ==
    {CreateCar(started + 1, 1, router, start_dist, FALSE) :
        router \in FinishRouters, start_dist \in {2, 4, 6, 8}}

\* No turn leads to lane L4, so nobody is ever headed towards it.
FinishStartCarOnLane == DoStartCarOnLane(FinishCars, MaxFinishCars, {TRUE})

FinishStepIfNeeded == DoStepIfNeeded({}, FinishDeltas)

NextFinish == FinishStartCarOnLane \/ FinishStepIfNeeded

SpecFinish == Init /\ [][NextFinish]_vars

\* The cars that finish in a step at the time given: on the last step of their
\* path, and either Parking with the time to park over, or Queued by then with
\* their front at or beyond the distance at which they vanish or stop biking.
Finishing(d, time) ==
    {id \in DOMAIN d.cars :
        /\ LastStep(d.cars[id].router)
        /\ \/ /\ d.cars[id].state.tag = "Parking"
              /\ time > d.cars[id].state.time_int.end
           \/ /\ \/ d.cars[id].state = Queued
                 \/ /\ d.cars[id].state.tag = "Crossing"
                    /\ time > d.cars[id].state.time_int.end
              /\ d.cars[id].router.goal.kind \in {"Border", "Bike"}
              /\ FrontOf(d, id, time) >= d.cars[id].router.end_dist}

\* The cars of a queue that are not in the set given, in their order.
Without(ids, gone) ==
    LET Stays(id) == id \notin gone
    IN  SelectSeq(ids, Stays)

\* C19: a step on cars that end their trip on their lane does not panic, takes the
\* cars that finish in it, and no other car, out of the cars table and out of
\* their queue, and leaves the other cars of each queue in the order they had.
C19_FinishedCarsRemoved ==
    [][called'.op = "step_if_needed" =>
         /\ ~called'.fatal
         /\ DOMAIN drive'.cars = DOMAIN drive.cars \ Finishing(drive, now')
         /\ \A on \in Traversables :
               drive'.queues[on] = Without(drive.queues[on], Finishing(drive, now'))]_vars

\* C19's case: of four cars on lane L4 the first and the third have finished in one
\* step, and the second and the fourth are left, in this order.
C19_Witness ==
    /\ called.op = "step_if_needed"
    /\ Len(drive.queues["L4"]) = 2
    /\ \E i, j \in 1..Len(called.events) :
         /\ called.events[i].ev \in {"remove", "remove_with_follower"}
         /\ called.events[j].ev \in {"remove", "remove_with_follower"}
         /\ called.events[i].on = "L4"
         /\ called.events[j].on = "L4"
         /\ called.events[i].idx = 2
         /\ called.events[j].idx = 0
         /\ called.events[i].leader > drive.queues["L4"][1]
         /\ i < j

\* ---- specification SpecPeek: any calls, peek_next_time among them

\* Scheduler::peek_next_time (a call): the scheduler is borrowed immutably; the
\* call is recorded with the time it answers.
DoPeekNextTime ==
    /\ Alive
    /\ sched' = sched
    /\ last' = Call("peek_next_time", PeekNextTime(sched), NoCommand, FALSE, NoItem, NoCommand)

\* hist holds the answer of peek_next_time as long as get_next is the next call.
PeekPush ==
    /\ Pushes(sched) < MaxHistPushes
    /\ DoPush(Commands)
    /\ hist' = <<>>
    /\ UNCHANGED <<phase, pairVars, saveVars, driveVars>>

PeekUpdate ==
    /\ DoUpdate(Commands)
    /\ hist' = <<>>
    /\ UNCHANGED <<phase, pairVars, saveVars, driveVars>>

PeekCancel ==
    /\ DoCancel(Commands)
    /\ hist' = <<>>
    /\ UNCHANGED <<phase, pairVars, saveVars, driveVars>>

PeekGetNext ==
    /\ DoGetNext
    /\ hist' = IF last.op = "peek_next_time" THEN hist ELSE <<>>
    /\ UNCHANGED <<phase, pairVars, saveVars, driveVars>>

PeekPeekNextTime ==
    /\ DoPeekNextTime
    /\ hist' = <<Event("peek_next_time", last'.time, NoCommand)>>
    /\ UNCHANGED <<phase, pairVars, saveVars, driveVars>>

NextPeek == PeekPush \/ PeekUpdate \/ PeekCancel \/ PeekGetNext \/ PeekPeekNextTime

SpecPeek == Init /\ [][NextPeek]_vars

\* C20: peek_next_time changes nothing of the scheduler; on an empty heap it
\* answers none, and otherwise the least time of the items of the heap, whether
\* their command is still queued at that time or not.  A get_next that follows
\* it panics if the answer was none and otherwise pops an item of the time
\* answered (and may deliver nothing).
C20_PeekNextTime ==
    /\ [](last.op = "peek_next_time" =>
            IF sched.items = <<>> THEN last.time = NoItem.time
            ELSE /\ \E i \in 1..Len(sched.items) : sched.items[i].time = last.time
                 /\ \A i \in 1..Len(sched.items) : sched.items[i].time >= last.time)
    /\ [][/\ last'.op = "peek_next_time" => sched' = sched
          /\ (last.op = "peek_next_time" /\ last'.op = "get_next") =>
                /\ last'.fatal <=> last.time = NoItem.time
                /\ ~last'.fatal => last'.item.time = last.time]_vars

\* C20's case: of two items in the heap peek_next_time has answered the time of
\* the earlier one, whose command had been cancelled or rescheduled, and the
\* get_next after it has popped that item and delivered nothing.
C20_Witness ==
    /\ last.op = "get_next"
    /\ ~last.fatal
    /\ last.out = NoCommand
    /\ hist = <<Event("peek_next_time", last.item.time, NoCommand)>>
    /\ \E i \in 1..Len(sched.items) : sched.items[i].time > last.item.time

\* C21: in a step the intersection is asked to start a turn only for a head car
\* whose turn has room at its end, and once at most; a car whose turn has no room
\* is not asked for and holds no grant for that turn after the step, and a car
\* granted its turn is on that turn after the step.  Every grant given in the step
\* is held by a car that is on the turn.
C21_RoomCheckedBeforeTurn ==
    [][called'.op = "step_if_needed" =>
         LET events == called'.events
         IN  /\ \A i \in EventsOf(events, "attempt") :
                  ~events[i].room =>
                     /\ \A j \in EventsOf(events, "maybe_start_turn") :
                           events[j].car # events[i].car
                     /\ [car |-> events[i].car, turn |-> events[i].goto] \notin world'.accepted
             /\ \A j \in EventsOf(events, "maybe_start_turn") :
                  /\ \A k \in EventsOf(events, "maybe_start_turn") :
                        events[k].car = events[j].car => k = j
                  /\ \E i \in EventsOf(events, "attempt") :
                        /\ i > j
                        /\ events[i].car = events[j].car
                        /\ events[i].goto = events[j].turn
                        /\ events[i].room
                        /\ events[i].granted = events[j].granted
                        /\ events[i].left = events[j].granted
                  /\ events[j].granted =>
                        /\ events[j].car \in DOMAIN drive'.cars
                        /\ QueueOf(drive', events[j].car) = events[j].turn
             /\ \A g \in world'.accepted \ world.accepted :
                  /\ g.car \in DOMAIN drive'.cars
                  /\ QueueOf(drive', g.car) = g.turn]_vars

\* C21's case: the head car of a lane was not moved, its turn having no room; the
\* intersection would have granted the turn, but was not asked.
C21_Witness ==
    /\ called.op = "step_if_needed"
    /\ \E i \in EventsOf(called.events, "attempt") :
         /\ called.events[i].goto \in Turns
         /\ ~called.events[i].room
         /\ called.events[i].granted
         /\ ~called.events[i].left
         /\ \A j \in EventsOf(called.events, "maybe_start_turn") :
               called.events[j].car # called.events[i].car
         /\ drive.cars[called.events[i].car].state = Queued

\* C22: a pop that returns a command pops an item whose time is the time the table
\* holds for the item's key, and returns the command the table holds for it; and
\* every delivery recorded of the tracked key has the time of the latest push or
\* update of the key before it, whether that moved the command to a later or to
\* an earlier time.
C22_DeliveredAtScheduledTime ==
    /\ [][(last'.op = "get_next" /\ last'.out # NoCommand) =>
            LET q == sched.queued_commands
                k == last'.item.cmd_type
            IN  /\ k \in DOMAIN q
                /\ q[k].time = last'.item.time
                /\ q[k].cmd = last'.out
                /\ k = ToType(last'.out)]_vars
    /\ [](\A j \in 1..Len(hist) :
            hist[j].ev = "deliver" =>
               \E i \in 1..(j - 1) :
                  /\ hist[i].ev \in {"push", "update"}
                  /\ hist[i].time = hist[j].time
                  /\ hist[i].cmd = hist[j].cmd
                  /\ \A m \in (i + 1)..(j - 1) : hist[m].ev \notin {"push", "update", "cancel"})

\* C22's case: a command pushed for a time and then updated to an earlier one has
\* been delivered by the pop at the earlier time.
C22_Witness ==
    /\ Len(hist) = 3
    /\ hist[1].ev = "push"
    /\ hist[2].ev = "update"
    /\ hist[2].time < hist[1].time
    /\ hist[3] = Event("deliver", hist[2].time, hist[1].cmd)
    /\ last.op = "get_next"
    /\ \E i \in 1..Len(sched.items) : sched.items[i] = Item(hist[1].time, Tracked)

\* ---- specification SpecDrain: any calls, then get_next until the heap is empty

\* While the run is in phase "run" any call is made; from the call of BeginDrain
\* on nothing is scheduled or cancelled any more and get_next is called as long
\* as the heap holds an item.  todo holds the commands that were queued when the
\* draining began, and pushed the commands get_next has returned since.
DrainPush ==
    /\ phase = "run"
    /\ Pushes(sched) < MaxHistPushes
    /\ DoPush(Commands)
    /\ UNCHANGED <<hist, phase, pairVars, saveVars, driveVars>>

DrainUpdate ==
    /\ phase = "run"
    /\ DoUpdate(Commands)
    /\ UNCHANGED <<hist, phase, pairVars, saveVars, driveVars>>

DrainCancel ==
    /\ phase = "run"
    /\ DoCancel(Commands)
    /\ UNCHANGED <<hist, phase, pairVars, saveVars, driveVars>>

DrainGetNext ==
    /\ phase = "run"
    /\ DoGetNext
    /\ UNCHANGED <<hist, phase, pairVars, saveVars, driveVars>>

BeginDrain ==
    /\ phase = "run"
    /\ Alive
    /\ phase' = "drain"
    /\ todo' = {sched.queued_commands[k].cmd : k \in DOMAIN sched.queued_commands}
    /\ pushed' = <<>>
    /\ UNCHANGED <<sched, last, hist, sched2, last2, pushed2, saveVars, driveVars>>

DrainPop ==
    /\ phase = "drain"
    /\ sched.items # <<>>
    /\ DoGetNext
    /\ pushed' = IF last'.out = NoCommand THEN pushed ELSE Append(pushed, last'.out)
    /\ UNCHANGED <<hist, phase, todo, sched2, last2, pushed2, saveVars, driveVars>>

NextDrain ==
    DrainPush \/ DrainUpdate \/ DrainCancel \/ DrainGetNext \/ BeginDrain \/ DrainPop

SpecDrain == Init /\ [][NextDrain]_vars

\* C23: in every state the heap holds, for every entry of the table, an item of
\* the entry's key and time.  While the heap is drained, every command returned
\* was queued when the draining began and none is returned twice; and when the
\* heap is empty each of those commands has been returned and the table is empty.
C23_NoLiveCommandLost ==
    /\ \A k \in DOMAIN sched.queued_commands :
          \E i \in 1..Len(sched.items) :
             sched.items[i] = Item(sched.queued_commands[k].time, k)
    /\ phase = "drain" =>
          /\ SeqRange(pushed) \subseteq todo
          /\ \A i, j \in 1..Len(pushed) : pushed[i] = pushed[j] => i = j
          /\ \A cmd \in todo \ SeqRange(pushed) :
                /\ ToType(cmd) \in DOMAIN sched.queued_commands
                /\ sched.queued_commands[ToType(cmd)].cmd = cmd
          /\ sched.items = <<>> =>
                /\ SeqRange(pushed) = todo
                /\ sched.queued_commands = EmptyMap

\* C23's case: one command was queued when the draining began, with two items of
\* its key on the heap; the pop of the earlier item has returned it and the pop of
\* the later one, which has emptied the heap, has returned none.
C23_Witness ==
    /\ phase = "drain"
    /\ sched.items = <<>>
    /\ Cardinality(todo) = 1
    /\ Len(pushed) = 1
    /\ last.op = "get_next"
    /\ last.out = NoCommand
    /\ last.item.cmd_type = ToType(pushed[1])
    /\ last.item.time > START_OF_DAY

\* The grants the intersections hold for the cars that are on a turn.
GrantsOnTurns(d) ==
    {[car |-> d.queues[t][i], turn |-> t] : <<t, i>> \in
        {<<t, i>> \in Turns \X (1..(MaxCars + 1)) : i <= Len(d.queues[t])}}

\* C24: the grants that are held are those of the cars on a turn.  In a step
\* turn_finished is called for a car and a turn only if the grant of that turn to
\* that car was held before the step, once, and the car is handed on from that
\* turn to a lane in the step; for every car handed on from a turn to a lane it is
\* called, and the grant is no longer held after the step.
C24_TurnFinishedAfterGrant ==
    /\ [](world.accepted = GrantsOnTurns(drive))
    /\ [][called'.op = "step_if_needed" =>
            LET events == called'.events
            IN  /\ \A j \in EventsOf(events, "turn_finished") :
                     /\ [car |-> events[j].car, turn |-> events[j].turn] \in world.accepted
                     /\ [car |-> events[j].car, turn |-> events[j].turn] \notin world'.accepted
                     /\ \A k \in EventsOf(events, "turn_finished") :
                           events[k].car = events[j].car => k = j
                     /\ \A k \in EventsOf(events, "maybe_start_turn") :
                           events[k].car # events[j].car
                     /\ QueueOf(drive, events[j].car) = events[j].turn
                     /\ QueueOf(drive', events[j].car) \in Lanes
                     /\ \E i \in EventsOf(events, "attempt") :
                           /\ events[i].car = events[j].car
                           /\ events[i].from = events[j].turn
                           /\ events[i].goto = QueueOf(drive', events[j].car)
                           /\ events[i].left
                /\ \A i \in EventsOf(events, "attempt") :
                     (events[i].left /\ events[i].from \in Turns) =>
                        \E j \in EventsOf(events, "turn_finished") :
                           /\ events[j].car = events[i].car
                           /\ events[j].turn = events[i].from]_vars

\* C24's case: two cars held the grant of their turn; one of them has been handed
\* on to the lane and its turn reported as finished, the other is still on its
\* turn and holds its grant.
C24_Witness ==
    /\ called.op = "step_if_needed"
    /\ \E j \in EventsOf(called.events, "turn_finished") :
         /\ QueueOf(drive, called.events[j].car) = "L2"
         /\ \E g \in world.accepted :
               /\ g.car # called.events[j].car
               /\ g.turn # called.events[j].turn
               /\ QueueOf(drive, g.car) = g.turn
               /\ drive.cars[g.car].state = Queued

\* C25: in a step, once a head car has been handed on to a queue, every later
\* attempt of the step to hand a head car on to the same queue finds no room at
\* its end and leaves everything as it is: at most one car enters a queue in a
\* step, and it is last in it, behind the cars that were there, Crossing from
\* distance 0 since the time of the step.
C25_OneHandOffPerDestination ==
    [][called'.op = "step_if_needed" =>
         LET events == called'.events
             attempts == EventsOf(events, "attempt")
             handed == EventsOf(events, "hand_off") \cup EventsOf(events, "hand_off_with_follower")
         IN  /\ \A i \in attempts : \A j \in attempts :
                  (i < j /\ events[i].goto = events[j].goto /\ events[i].left) =>
                     /\ ~events[j].room
                     /\ ~events[j].left
                     /\ events[j].same
             /\ \A i \in handed : \A j \in handed :
                  events[i].goto = events[j].goto => i = j
             /\ \A i \in handed :
                  LET ids == drive'.queues[events[i].goto]
                  IN  /\ ids # <<>>
                      /\ ids[Len(ids)] = events[i].leader
                      /\ drive'.cars[events[i].leader].state
                            = CrossingState(events[i].goto, 0, now')
                      /\ ~RoomAtEnd(ids, events[i].goto, now', drive'.cars)
                      /\ QueueOf(drive, events[i].leader) = events[i].from
                      /\ \A k \in 1..(Len(ids) - 1) :
                            QueueOf(drive, ids[k]) = events[i].goto]_vars

\* C25's case: the head cars of two queues were Queued and headed for the same
\* empty lane; the first has been handed on to it, the second found no room behind
\* that car and is still the Queued head of its turn.
C25_Witness ==
    /\ called.op = "step_if_needed"
    /\ \E i \in EventsOf(called.events, "attempt") :
       \E j \in EventsOf(called.events, "attempt") :
         /\ i < j
         /\ called.events[i].goto = "L2"
         /\ called.events[j].goto = "L2"
         /\ called.events[i].from # called.events[j].from
         /\ called.events[i].queued /\ called.events[i].left
         /\ called.events[j].queued /\ ~called.events[j].room /\ ~called.events[j].left
         /\ drive.queues["L2"] = <<called.events[i].car>>
         /\ drive.queues[called.events[j].from][1] = called.events[j].car
         /\ drive.cars[called.events[j].car].state = Queued

\* ------- specification SpecCancel: any calls, what the last cancel found kept

KeptPush ==
    /\ Pushes(sched) < MaxHistPushes
    /\ DoPush(Commands)
    /\ UNCHANGED <<hist, phase, pairVars, saveVars, driveVars>>

KeptUpdate ==
    /\ DoUpdate(Commands)
    /\ UNCHANGED <<hist, phase, pairVars, saveVars, driveVars>>

\* cancel, with the entry that was queued under the key of the command, if there
\* was one, kept in hist.
KeptCancel ==
    /\ DoCancel(Commands)
    /\ hist' = LET q == sched.queued_commands
                   k == ToType(last'.cmd)
               IN  IF k \in DOMAIN q THEN <<Event("queued", q[k].time, q[k].cmd)>> ELSE <<>>
    /\ UNCHANGED <<phase, pairVars, saveVars, driveVars>>

KeptGetNext ==
    /\ DoGetNext
    /\ UNCHANGED <<hist, phase, pairVars, saveVars, driveVars>>

NextCancel == KeptPush \/ KeptUpdate \/ KeptCancel \/ KeptGetNext

SpecCancel == Init /\ [][NextCancel]_vars

\* Two commands are queued under one key: both spawn or update the same car, or
\* they are of one variant and one id.
UnderOneKey(a, b) ==
    \/ a.tag \in {"SpawnCar", "UpdateCar"} /\ b.tag \in {"SpawnCar", "UpdateCar"} /\ a.id = b.id
    \/ a.tag = b.tag /\ a.id = b.id

\* C26: cancel(cmd) looks at the key of cmd alone.  At most one queued command is
\* under one key with cmd; if there is one, equal to cmd or not, cancel removes
\* its entry and changes nothing else; if there is none, cancel changes nothing.
C26_CancelKeyedByType ==
    [][(last'.op = "cancel") =>
         LET q == sched.queued_commands
             hit == {k \in DOMAIN q : UnderOneKey(q[k].cmd, last'.cmd)}
         IN  /\ Cardinality(hit) <= 1
             /\ hit \subseteq {ToType(last'.cmd)}
             /\ hit = {} => sched' = sched
             /\ \A k \in hit : sched' = [sched EXCEPT !.queued_commands = MapRemove(q, k)]
             /\ \A k \in DOMAIN sched'.queued_commands :
                   ~UnderOneKey(sched'.queued_commands[k].cmd, last'.cmd)]_vars

\* C26's case: SpawnCar of car 1 was queued next to a command of another key, and
\* cancel(UpdateCar of car 1) has removed it and nothing else.
C26_Witness ==
    /\ last.op = "cancel"
    /\ last.cmd = UpdateCar(1)
    /\ Len(hist) = 1
    /\ hist[1].ev = "queued"
    /\ hist[1].cmd.tag = "SpawnCar"
    /\ hist[1].cmd # last.cmd
    /\ Tracked \notin DOMAIN sched.queued_commands
    /\ Cardinality(DOMAIN sched.queued_commands) = 1
    /\ \E i \in 1..Len(sched.items) : sched.items[i] = Item(hist[1].time, Tracked)
    /\ Len(sched.items) = 2

====
